---- MODULE Spec2Model ----
(***************************************************************************)
(* A model of jlist, the adaptive list of src/jlist/jlist.cc: one          *)
(* container (its tag and its vector of entries), the references it has    *)
(* acquired and not released, and one action per public operation.         *)
(*                                                                         *)
(* Values.  A Python object is a record [k, v]: k is its exact type and v  *)
(* an integer that carries its value (a float is counted in halves, so     *)
(* v = 1 is 0.5 and v = 2 is 1.0).  An entry of the vector is a record     *)
(* [rep, k, v]: rep says what the eight bytes of the union really hold     *)
(* ("ob" a pointer to the object [k, v], "int" a raw int64 v, "dbl" a raw  *)
(* double v, "zero" the all-zero bytes of a value-initialised entry).  The *)
(* program has no such per-entry field: rep is what lets the model see an  *)
(* entry that is read through the wrong member of the union.               *)
(***************************************************************************)
EXTENDS Integers, Sequences, FiniteSets, TLC

VARIABLES tag, entries, refs, ub, last, detail, scan, peer, iter

vars == <<tag, entries, refs, ub, last, detail, scan, peer, iter>>

(***************************************************************************)
(* Bounds of the model.                                                    *)
(***************************************************************************)
MaxLen == 2      \* longest vector explored
MaxSeq == 2      \* longest argument sequence (external or jlist)
MaxLeak == 1     \* operations stop once |refs - Owed| exceeds it
IntBits == 3     \* width of the model's std::int64_t

INT64_MAX == 2 ^ (IntBits - 1) - 1
INT64_MIN == 0 - 2 ^ (IntBits - 1)

(***************************************************************************)
(* entry_tag.                                                              *)
(***************************************************************************)
Tags == {"unset", "as_ob", "as_int", "as_double"}

PrimTags == {"as_int", "as_double"}

(***************************************************************************)
(* Python objects.                                                         *)
(***************************************************************************)
PyLongOb(n) == [k |-> "long", v |-> n]
PyFloatOb(h) == [k |-> "float", v |-> h]
PyBoolOb == [k |-> "bool", v |-> 1]
PyStrOb == [k |-> "str", v |-> 0]
PyNone == [k |-> "none", v |-> 0]

BigLong == PyLongOb(INT64_MAX + 1)

\* the objects a caller passes in
Values == {PyLongOb(0), PyLongOb(1), BigLong, PyFloatOb(1), PyBoolOb, PyStrOb}

\* the objects stored where boxing is followed: one more integer, below the range
StoreValues == Values \cup {PyLongOb(INT64_MIN - 1)}

\* exact integers within the int64 range, its two ends among them
SmallLongs == {PyLongOb(INT64_MIN), PyLongOb(0), PyLongOb(1), PyLongOb(INT64_MAX)}

(***************************************************************************)
(* union entry.                                                            *)
(***************************************************************************)
ObEntry(o) == [rep |-> "ob", k |-> o.k, v |-> o.v]
IntEntry(n) == [rep |-> "int", k |-> "raw", v |-> n]
DblEntry(h) == [rep |-> "dbl", k |-> "raw", v |-> h]
ZeroEntry == [rep |-> "zero", k |-> "raw", v |-> 0]

EntryOb(e) == [k |-> e.k, v |-> e.v]

\* the member of the union that tag t reads
RepOf(t) == IF t = "as_int" THEN "int" ELSE IF t = "as_double" THEN "dbl" ELSE "ob"

\* entry_value<T>(e): the bytes of e read as T.  Zero bytes are 0 and 0.0;
\* a pointer read as a number is some number.
entry_value(e, T) == IF e.rep \in {T, "zero"} THEN e.v ELSE 0

\* box_value with the double converted through an integer (the half is lost)
box_value_trunc(T, x) == IF T = "int" THEN PyLongOb(x) ELSE PyFloatOb(2 * (x \div 2))

\* box_value(T): PyLong_FromLongLong / PyFloat_FromDouble
box_value(T, x) == IF T = "int" THEN PyLongOb(x) ELSE PyFloatOb(x)

\* maybe_unbox<std::int64_t> with PyLong_Check for PyLong_CheckExact: a bool,
\* which is a subclass of int, is unboxed too
maybe_unbox_int_inexact(ob) ==
    IF ob.k \in {"long", "bool"} /\ ob.v >= INT64_MIN /\ ob.v <= INT64_MAX
    THEN [some |-> TRUE, v |-> ob.v]
    ELSE [some |-> FALSE, v |-> 0]

\* maybe_unbox<std::int64_t> with the largest value taken for an overflow
maybe_unbox_int_narrow(ob) ==
    IF ob.k = "long" /\ ob.v >= INT64_MIN /\ ob.v < INT64_MAX
    THEN [some |-> TRUE, v |-> ob.v]
    ELSE [some |-> FALSE, v |-> 0]

\* maybe_unbox<std::int64_t> with the overflow flag not looked at: the -1
\* that PyLong_AsLongLongAndOverflow returns on overflow is the value
maybe_unbox_int_unchecked(ob) ==
    IF ob.k = "long"
    THEN [some |-> TRUE,
          v |-> IF ob.v >= INT64_MIN /\ ob.v <= INT64_MAX THEN ob.v ELSE 0 - 1]
    ELSE [some |-> FALSE, v |-> 0]

\* maybe_unbox<std::int64_t>: exact int that fits
maybe_unbox_int(ob) ==
    IF ob.k = "long" /\ ob.v >= INT64_MIN /\ ob.v <= INT64_MAX
    THEN [some |-> TRUE, v |-> ob.v]
    ELSE [some |-> FALSE, v |-> 0]

\* maybe_unbox<double>: exact float
maybe_unbox_double(ob) ==
    IF ob.k = "float"
    THEN [some |-> TRUE, v |-> ob.v]
    ELSE [some |-> FALSE, v |-> 0]

maybe_unbox(T, ob) == IF T = "int" THEN maybe_unbox_int(ob) ELSE maybe_unbox_double(ob)

(***************************************************************************)
(* The container while an operation runs: the fields of the jlist, the     *)
(* number of references it holds, whether a pointer operation was applied  *)
(* to bytes that are not a pointer (or a read left the vector), the        *)
(* references acquired and released so far by this operation, and the      *)
(* number of objects it has allocated so far.                              *)
(***************************************************************************)
Cur == [tag |-> tag, entries |-> entries, refs |-> refs, ub |-> ub,
        acqs |-> <<>>, rels |-> <<>>, allocs |-> 0]

\* Py_INCREF(e.as_ob)
IncRef(s, e) ==
    IF e.rep = "ob"
    THEN [s EXCEPT !.refs = @ + 1, !.acqs = Append(@, EntryOb(e))]
    ELSE [s EXCEPT !.ub = TRUE]

\* Py_DECREF(e.as_ob)
DecRef(s, e) ==
    IF e.rep = "ob"
    THEN [s EXCEPT !.refs = @ - 1, !.rels = Append(@, EntryOb(e))]
    ELSE [s EXCEPT !.ub = TRUE]

RECURSIVE IncRefAll(_, _)
IncRefAll(s, es) ==
    IF es = <<>> THEN s ELSE IncRefAll(IncRef(s, Head(es)), Tail(es))

RECURSIVE DecRefAll(_, _)
DecRefAll(s, es) ==
    IF es = <<>> THEN s ELSE DecRefAll(DecRef(s, Head(es)), Tail(es))

\* the values an undefined read can produce
Garbage == {0 - 1, 1}

Result(s, err) == [st |-> s, err |-> err]

(***************************************************************************)
(* box_values<T>(list).  The f-th allocation of the operation returns NULL *)
(* (0: none does); g is what the unwinding loop reads back.  The unwinding *)
(* loop runs once per converted entry but always works on entries[ix], the *)
(* entry that failed and is still unboxed.                                 *)
(***************************************************************************)
box_values(s, T, f, g) ==
    LET n == Len(s.entries)
        fl == f - s.allocs
        unwind == fl \in 1..n
        ix == IF unwind THEN fl - 1 ELSE n
        conv(i) == ObEntry(box_value(T, entry_value(s.entries[i], T)))
        boxed == [i \in 1..n |-> IF i <= ix THEN conv(i) ELSE s.entries[i]]
        misread == \E i \in 1..ix : s.entries[i].rep \notin {T, "zero"}
        s1 == [s EXCEPT !.entries = boxed,
                        !.refs = @ + ix,
                        !.acqs = @ \o [i \in 1..ix |-> EntryOb(conv(i))],
                        !.allocs = @ + (IF unwind THEN fl ELSE n),
                        !.ub = @ \/ misread]
        s2 == IF unwind /\ ix > 0
              THEN [s1 EXCEPT !.entries[fl] = [rep |-> T, k |-> "raw", v |-> g],
                              !.ub = TRUE]
              ELSE s1
    IN  Result([s2 EXCEPT !.tag = "as_ob"], unwind)

\* maybe_box_values(list)
maybe_box_values(s, f, g) ==
    CASE s.tag \in {"unset", "as_ob"} -> Result(s, FALSE)
      [] s.tag = "as_int" -> box_values(s, "int", f, g)
      [] s.tag = "as_double" -> box_values(s, "dbl", f, g)

(***************************************************************************)
(* setitem_helper(self, entry, ob, clear), entry being entries[pos].       *)
(***************************************************************************)
add_object(s, pos, ob, clear) ==
    LET s1 == IF clear THEN DecRef(s, s.entries[pos]) ELSE s
    IN  [IncRef(s1, ObEntry(ob)) EXCEPT !.entries[pos] = ObEntry(ob)]

add_unboxed(s, T, pos, ob, clear, f, g) ==
    LET m == maybe_unbox(T, ob)
        boxed(b) == IF b.err THEN Result(b.st, TRUE)
                    ELSE Result(add_object(b.st, pos, ob, clear), FALSE)
    IN  IF ~m.some
        THEN boxed(box_values(s, T, f, g))
        ELSE Result([s EXCEPT !.entries[pos] = [rep |-> T, k |-> "raw", v |-> m.v]],
                    FALSE)

setitem_helper(s, pos, ob, clear, f, g) ==
    CASE s.tag = "unset" ->
           IF ob.k = "float"
           THEN Result([s EXCEPT !.tag = "as_double",
                                 !.entries[pos] = DblEntry(ob.v)], FALSE)
           ELSE IF ob.k = "long" /\ ob.v >= INT64_MIN /\ ob.v <= INT64_MAX
           THEN Result([s EXCEPT !.tag = "as_int",
                                 !.entries[pos] = IntEntry(ob.v)], FALSE)
           ELSE Result(add_object([s EXCEPT !.tag = "as_ob"], pos, ob, clear), FALSE)
      [] s.tag = "as_ob" -> Result(add_object(s, pos, ob, clear), FALSE)
      [] s.tag = "as_int" -> add_unboxed(s, "int", pos, ob, clear, f, g)
      [] s.tag = "as_double" -> add_unboxed(s, "dbl", pos, ob, clear, f, g)

(***************************************************************************)
(* What the last operation was and what it did.                            *)
(***************************************************************************)
NoList == [tag |-> "unset", entries |-> <<>>]

\* ret: the object returned; res: the jlist returned; sl and oes: the slice
\* and the entries or items assigned, which the slice operations fill in
\* (an operation that returns a list fills oes with the entries it returns);
\* held: the temporary objects the operation created and has not released;
\* oref: the change in the reference count of the list assigned from
DidR(op, err, ix, val, other, s, ret, res) ==
    [op |-> op, err |-> err, ix |-> ix, val |-> val,
     sl |-> <<0, 0, 0>>, oes |-> <<>>, held |-> 0, oref |-> 0,
     otag |-> other.tag, olen |-> Len(other.entries),
     ptag |-> tag, plen |-> Len(entries),
     acqs |-> s.acqs, rels |-> s.rels,
     ret |-> ret, rtag |-> res.tag, rlen |-> Len(res.entries)]

Did(op, err, ix, val, other, s) == DidR(op, err, ix, val, other, s, PyNone, NoList)

\* the error an operation raises when a helper returns true
Mem(err) == IF err THEN "MemoryError" ELSE "none"

\* what a behaviour that does not follow the operations keeps of a record:
\* how the operation ended and the list it returned
Brief(rec) ==
    [rec EXCEPT !.op = "new", !.ix = 0, !.val = PyNone, !.acqs = <<>>, !.rels = <<>>,
                !.sl = <<0, 0, 0>>, !.oes = <<>>, !.held = 0, !.oref = 0,
                !.ret = PyNone, !.otag = "unset", !.olen = 0, !.ptag = "unset",
                !.plen = 0]

\* the loop of a search or a comparison that is under way, between two of its
\* steps: none
ScanIdle ==
    [phase |-> "idle", op |-> "none", mode |-> "ob", omode |-> "ob",
     ix |-> 0, stop |-> 0, value |-> PyNone, other |-> <<>>,
     lhs |-> PyNone, rhs |-> PyNone, calls |-> FALSE,
     oob |-> FALSE, raw |-> FALSE, cut |-> FALSE, ne |-> FALSE, held |-> 0, result |-> 0]

\* a second list, made by copy: whether there is one, whether its vector
\* is the storage of the first list's vector, its fields and the references
\* it holds
NoPeer == [made |-> FALSE, shared |-> FALSE, tag |-> "unset", entries |-> <<>>, refs |-> 0]

\* a cursor over the list (jlist_iter): whether there is one, its ix, and
\* whether it still has its list
NoIter == [made |-> FALSE, ix |-> 0, list |-> FALSE]

StoreList(s, rec) ==
    /\ tag' = s.tag
    /\ entries' = s.entries
    /\ refs' = s.refs
    /\ ub' = s.ub
    /\ last' = IF detail THEN rec ELSE Brief(rec)
    /\ detail' = detail

Store(s, rec) == StoreList(s, rec) /\ peer' = peer /\ iter' = iter

Commit(s, rec) == Store(s, rec) /\ scan' = scan

\* the entries that hold a pointer: one reference is owed to each
Owed == Cardinality({i \in DOMAIN entries : entries[i].rep = "ob"})

\* the operations are explored until undefined behaviour, and while the
\* references held are near the references owed
Near ==
    /\ ~ub
    /\ refs - Owed <= MaxLeak
    /\ Owed - refs <= MaxLeak

\* the allocation that fails (0: none), among those the operation makes
Failures(r) == 0..r.st.allocs

\* what an undefined read returns; nothing is read unless unwinding runs
GarbageFor(f) == IF f > 1 THEN Garbage ELSE {1}

\* every index of the vector, and one beyond it on each side
Indices == (0 - Len(entries) - 1)..Len(entries)

New ==
    /\ tag = "unset"
    /\ entries = <<>>
    /\ refs = 0
    /\ ub = FALSE
    /\ last = [op |-> "new", err |-> "none", ix |-> 0, val |-> PyNone,
               sl |-> <<0, 0, 0>>, oes |-> <<>>, held |-> 0, oref |-> 0,
               otag |-> "unset", olen |-> 0, ptag |-> "unset", plen |-> 0,
               acqs |-> <<>>, rels |-> <<>>,
               ret |-> PyNone, rtag |-> "unset", rlen |-> 0]
    /\ scan = ScanIdle
    /\ peer = NoPeer
    /\ iter = NoIter

Init == New /\ detail = FALSE

\* adjust_ix that adds the size again to an index still negative
adjust_ix_twice(ix, size, clamp) ==
    LET a == IF ix + size < 0 THEN ix + 2 * size ELSE IF ix < 0 THEN ix + size ELSE ix
    IN  IF clamp THEN (IF a < 0 THEN 0 ELSE IF a > size THEN size ELSE a) ELSE a

\* detail::adjust_ix
adjust_ix(ix, size, clamp) ==
    LET a == IF ix < 0 THEN ix + size ELSE ix
    IN  IF clamp THEN (IF a < 0 THEN 0 ELSE IF a > size THEN size ELSE a) ELSE a

\* the index an operation acted on, or the one it rejected
Shown(index, err) ==
    IF err = "IndexError" THEN index ELSE adjust_ix(index, Len(entries), FALSE)

InsertAt(es, pos, e) == SubSeq(es, 1, pos - 1) \o <<e>> \o SubSeq(es, pos, Len(es))
RemoveAt(es, pos) == SubSeq(es, 1, pos - 1) \o SubSeq(es, pos + 1, Len(es))

(***************************************************************************)
(* append(self, ob)                                                        *)
(***************************************************************************)
append(s, ob, f, g) ==
    LET s0 == [s EXCEPT !.entries = Append(@, ZeroEntry)]
    IN  setitem_helper(s0, Len(s.entries) + 1, ob, FALSE, f, g)

\* append to a list of fewer than cap entries
AppendWithin_(cap, ob) ==
    /\ Near
    /\ Len(entries) < cap
    /\ \E r0 \in {append(Cur, ob, 0, 1)} :
         \E f \in Failures(r0) : \E g \in GarbageFor(f) :
           \E r \in {IF f = 0 THEN r0 ELSE append(Cur, ob, f, g)} :
             Commit(r.st, Did("append", Mem(r.err), Len(entries), ob, NoList, r.st))

Append_(ob) == AppendWithin_(MaxLen, ob)

(***************************************************************************)
(* insert(self, (index, value))                                            *)
(***************************************************************************)
insert(s, index, ob, f, g) ==
    LET ix == adjust_ix(index, Len(s.entries), TRUE)
        s0 == [s EXCEPT !.entries = InsertAt(@, ix + 1, ZeroEntry)]
    IN  IF ix >= Len(s.entries)
        THEN append(s, ob, f, g)
        ELSE setitem_helper(s0, ix + 1, ob, FALSE, f, g)

Insert_(index, ob) ==
    /\ Near
    /\ Len(entries) < MaxLen
    /\ \E r0 \in {insert(Cur, index, ob, 0, 1)} :
         \E f \in Failures(r0) : \E g \in GarbageFor(f) :
           \E r \in {IF f = 0 THEN r0 ELSE insert(Cur, index, ob, f, g)} :
             Commit(r.st, Did("insert", Mem(r.err), adjust_ix(index, Len(entries), TRUE),
                              ob, NoList, r.st))

(***************************************************************************)
(* set_subscript(self, index, value) with an integer index: setitem        *)
(***************************************************************************)
get_entry(s, ix) == ix >= 0 /\ ix < Len(s.entries)

setitem(s, ix, ob, f, g) ==
    LET done(r) == Result(r.st, Mem(r.err))
    IN  IF ~get_entry(s, ix) THEN Result(s, "IndexError")
        ELSE done(setitem_helper(s, ix + 1, ob, TRUE, f, g))

set_subscript(s, index, ob, f, g) ==
    setitem(s, adjust_ix(index, Len(s.entries), FALSE), ob, f, g)

SetItem_(index, ob) ==
    /\ Near
    /\ \E r0 \in {set_subscript(Cur, index, ob, 0, 1)} :
         \E f \in Failures(r0) : \E g \in GarbageFor(f) :
           \E r \in {IF f = 0 THEN r0 ELSE set_subscript(Cur, index, ob, f, g)} :
             Commit(r.st, Did("set", r.err, Shown(index, r.err), ob, NoList, r.st))

\* setitem with ob == NULL
delitem(s, ix) ==
    LET s1 == IF s.tag = "as_ob" THEN DecRef(s, s.entries[ix + 1]) ELSE s
    IN  IF ~get_entry(s, ix) THEN Result(s, "IndexError")
        ELSE Result([s1 EXCEPT !.entries = RemoveAt(@, ix + 1)], "none")

DelItem_(index) ==
    /\ Near
    /\ \E r \in {delitem(Cur, adjust_ix(index, Len(entries), FALSE))} :
         Commit(r.st, Did("delete", r.err, Shown(index, r.err), PyNone, NoList, r.st))

(***************************************************************************)
(* getitem(self, ix): the object returned, which for a boxed list is the   *)
(* pointer the entry holds, whatever bytes those are                       *)
(***************************************************************************)
getitem(s, ix) ==
    LET e == s.entries[ix + 1]
        T == RepOf(s.tag)
    IN  IF ~get_entry(s, ix) THEN [err |-> "IndexError", ret |-> PyNone]
        ELSE IF s.tag = "as_ob"
        THEN [err |-> "none",
              ret |-> IF e.rep = "ob" THEN EntryOb(e) ELSE [k |-> "junk", v |-> e.v]]
        ELSE [err |-> "none", ret |-> box_value(T, entry_value(e, T))]

\* subscript(self, item) with an integer item.  A primitive entry is boxed
\* into a new object, the one allocation of the call, which fails when f = 1
subscript_index(s, index, f) ==
    LET r == getitem(s, adjust_ix(index, Len(s.entries), FALSE))
    IN  IF r.err = "none" /\ s.tag # "as_ob" /\ f = 1
        THEN [err |-> "MemoryError", ret |-> PyNone]
        ELSE r

GetItem_(index) ==
    /\ Near
    /\ \E f \in 0..1 :
         \E r \in {subscript_index(Cur, index, f)} :
           Commit(Cur, [DidR("get", r.err, Shown(index, r.err), PyNone, NoList, Cur,
                             r.ret, NoList)
                          EXCEPT !.sl = <<index, 0, 0>>])

(***************************************************************************)
(* clear(self): clear_helper                                               *)
(***************************************************************************)
clear_helper(s) ==
    LET s1 == IF s.tag = "as_ob" THEN DecRefAll(s, s.entries) ELSE s
    IN  [s1 EXCEPT !.entries = <<>>]

Clear_ ==
    /\ Near
    /\ \E s1 \in {clear_helper(Cur)} :
         Commit(s1, Did("clear", "none", 0, PyNone, NoList, s1))

(***************************************************************************)
(* extend(self, other), other a jlist: extend_helper(jlist&, jlist&)       *)
(***************************************************************************)
\* box_and_extend<T>: every entry of other is boxed, none is stored
box_and_extend(s, T, other, f) ==
    LET m == Len(other.entries)
        fl == f - s.allocs
        fails == T # "ob" /\ fl \in 1..m
        k == IF fails THEN fl - 1 ELSE m
        boxed(i) == IF T = "ob" THEN other.entries[i]
                    ELSE ObEntry(box_value(T, entry_value(other.entries[i], T)))
        s1 == IncRefAll(s, [i \in 1..k |-> boxed(i)])
        s2 == IF T = "ob" THEN s1
              ELSE [s1 EXCEPT !.allocs = @ + (IF fails THEN fl ELSE m)]
    IN  Result(s2, fails)

\* extend_helper without the set_tag that follows the insert
extend_helper_notag(s, other, f, g) ==
    LET s1 == [s EXCEPT !.entries = @ \o other.entries]
        s2 == IF s.tag = "as_ob" THEN IncRefAll(s1, other.entries) ELSE s1
        boxed(b) == IF b.err THEN Result(b.st, TRUE)
                    ELSE box_and_extend(b.st, RepOf(other.tag), other, f)
    IN  IF Len(other.entries) = 0 THEN Result(s, FALSE)
        ELSE IF s.tag = other.tag \/ s.tag = "unset" THEN Result(s2, FALSE)
        ELSE boxed(maybe_box_values(s, f, g))

extend_helper(s, other, f, g) ==
    LET s1 == [s EXCEPT !.entries = @ \o other.entries]
        s2 == IF s.tag = "as_ob" THEN IncRefAll(s1, other.entries) ELSE s1
        boxed(b) == IF b.err THEN Result(b.st, TRUE)
                    ELSE box_and_extend(b.st, RepOf(other.tag), other, f)
    IN  IF Len(other.entries) = 0 THEN Result(s, FALSE)
        ELSE IF s.tag = other.tag \/ s.tag = "unset"
        THEN Result([s2 EXCEPT !.tag = other.tag], FALSE)
        ELSE boxed(maybe_box_values(s, f, g))

Extend_(other) ==
    /\ Near
    /\ Len(entries) + Len(other.entries) <= MaxLen
    /\ \E r0 \in {extend_helper(Cur, other, 0, 1)} :
         \E f \in Failures(r0) : \E g \in GarbageFor(f) :
           \E r \in {IF f = 0 THEN r0 ELSE extend_helper(Cur, other, f, g)} :
             Commit(r.st, Did("extend", Mem(r.err), 0, PyNone, other, r.st))

(***************************************************************************)
(* extend(self, other), other a list or a tuple: extend_fast_sequence      *)
(***************************************************************************)
\* the unwinding of extend_fast_sequence and extend_iterable after ix items
unwind_extend(s, ix) ==
    IF s.tag = "as_ob" THEN DecRefAll(s, SubSeq(s.entries, 1, ix)) ELSE s

RECURSIVE fast_loop(_, _, _, _, _, _)
fast_loop(s, base_size, items, ix, f, g) ==
    LET stored(r) == IF r.err THEN Result(unwind_extend(r.st, ix), TRUE)
                     ELSE fast_loop(r.st, base_size, items, ix + 1, f, g)
    IN  IF ix >= Len(items) THEN Result(s, FALSE)
        ELSE stored(setitem_helper(s, base_size + ix + 1, items[ix + 1], FALSE, f, g))

extend_fast_sequence(s, items, f, g) ==
    LET resized == [s EXCEPT !.entries = @ \o [i \in 1..Len(items) |-> ZeroEntry]]
    IN  IF Len(items) = 0 THEN Result(s, FALSE)
        ELSE fast_loop(resized, Len(s.entries), items, 0, f, g)

ExtendFast_(items) ==
    /\ Near
    /\ Len(entries) + Len(items) <= MaxLen
    /\ \E r0 \in {extend_fast_sequence(Cur, items, 0, 1)} :
         \E f \in Failures(r0) : \E g \in GarbageFor(f) :
           \E r \in {IF f = 0 THEN r0 ELSE extend_fast_sequence(Cur, items, f, g)} :
             Commit(r.st, Did("extend_fast", Mem(r.err), 0, PyNone,
                              [tag |-> "unset", entries |-> items], r.st))

(***************************************************************************)
(* extend(self, other), other any other iterable: extend_iterable.         *)
(* PyIter_Next hands over a new reference to each item, which the loop     *)
(* never releases.                                                         *)
(***************************************************************************)
RECURSIVE extend_iterable(_, _, _, _, _)
extend_iterable(s, items, ix, f, g) ==
    LET got == IncRef(s, ObEntry(items[ix + 1]))
        s0 == [got EXCEPT !.entries = Append(@, ZeroEntry)]
        stored(r) == IF r.err THEN Result(unwind_extend(r.st, ix), TRUE)
                     ELSE extend_iterable(r.st, items, ix + 1, f, g)
    IN  IF ix >= Len(items) THEN Result(s, FALSE)
        ELSE stored(setitem_helper(s0, Len(s.entries) + 1, items[ix + 1], FALSE, f, g))

ExtendIter_(items) ==
    /\ Near
    /\ Len(entries) + Len(items) <= MaxLen
    /\ \E r0 \in {extend_iterable(Cur, items, 0, 0, 1)} :
         \E f \in Failures(r0) : \E g \in GarbageFor(f) :
           \E r \in {IF f = 0 THEN r0 ELSE extend_iterable(Cur, items, 0, f, g)} :
             Commit(r.st, Did("extend_iter", Mem(r.err), 0, PyNone,
                              [tag |-> "unset", entries |-> items], r.st))

(***************************************************************************)
(* The sequences and the jlists passed as arguments.  A jlist argument is  *)
(* one that jlist(items) builds (init: clear_helper, then extend_helper    *)
(* on the new, unset list), or such a list after clear().                  *)
(***************************************************************************)
SeqsOver(S, n) == UNION {[1..m -> S] : m \in 0..n}

ArgValues == {PyLongOb(1), PyFloatOb(1), PyStrOb}

NewList == [tag |-> "unset", entries |-> <<>>, refs |-> 0, ub |-> FALSE,
            acqs |-> <<>>, rels |-> <<>>, allocs |-> 0]

AsList(s) == [tag |-> s.tag, entries |-> s.entries]

init(items) == extend_fast_sequence(NewList, items, 0, 1).st

ArgSeqs == SeqsOver(ArgValues, MaxSeq)

Built == {AsList(init(items)) : items \in ArgSeqs}

OtherLists == Built \cup {[tag |-> l.tag, entries |-> <<>>] : l \in Built}

(***************************************************************************)
(* Generic comparison of two objects.  Numbers (int, bool, float) compare  *)
(* by value, a float being counted in halves; a str compares with a str    *)
(* only; ordering None, or a number against a str, raises TypeError.       *)
(***************************************************************************)
Numeric(o) == o.k \in {"long", "bool", "float"}

Halves(o) == IF o.k = "float" THEN o.v ELSE 2 * o.v

\* PyObject_RichCompareBool(a, b, Py_EQ)
RichEq(a, b) ==
    IF a = b THEN TRUE
    ELSE IF Numeric(a) /\ Numeric(b) THEN Halves(a) = Halves(b)
    ELSE FALSE

\* PyObject_RichCompareBool(a, b, Py_LT): "lt", "ge" or "err"
RichLt(a, b) ==
    IF Numeric(a) /\ Numeric(b) THEN (IF Halves(a) < Halves(b) THEN "lt" ELSE "ge")
    ELSE IF a.k = "str" /\ b.k = "str" THEN (IF a.v < b.v THEN "lt" ELSE "ge")
    ELSE "err"

(***************************************************************************)
(* sort(self) without a key: sort_without_key.  std::sort orders a range   *)
(* of at most 16 elements by insertion, and so does std::stable_sort when  *)
(* it gets no buffer (with one it merges the halves through the buffer,    *)
(* with the same result when no comparison throws); a comparison that      *)
(* throws leaves the range as the insertion left it.                       *)
(***************************************************************************)
\* a comparison of the raw values as unsigned words
sort_less_unsigned(t, a, b) ==
    LET word(e) == (entry_value(e, RepOf(t)) + 2 * (INT64_MAX + 1)) % (2 * (INT64_MAX + 1))
    IN  IF t = "as_ob"
        THEN (IF a.rep = "ob" /\ b.rep = "ob" THEN RichLt(EntryOb(a), EntryOb(b)) ELSE "ub")
        ELSE (IF word(a) < word(b) THEN "lt" ELSE "ge")

\* the comparison lambda of tag t applied to entries a and b
sort_less(t, a, b) ==
    IF t = "as_ob"
    THEN (IF a.rep = "ob" /\ b.rep = "ob" THEN RichLt(EntryOb(a), EntryOb(b)) ELSE "ub")
    ELSE (IF entry_value(a, RepOf(t)) < entry_value(b, RepOf(t)) THEN "lt" ELSE "ge")

\* std::__unguarded_linear_insert: val is held outside the range while the
\* entries before the hole at pos are shifted up
RECURSIVE linear_insert(_, _, _, _)
linear_insert(t, es, pos, val) ==
    LET c == IF pos > 1 THEN sort_less(t, val, es[pos - 1]) ELSE "ub"
    IN  CASE c = "lt" -> linear_insert(t, [es EXCEPT ![pos] = es[pos - 1]], pos - 1, val)
          [] c = "ge" -> [es |-> [es EXCEPT ![pos] = val], err |-> "none"]
          [] OTHER -> [es |-> es, err |-> c]

\* std::__insertion_sort from the i-th element on
RECURSIVE insertion_sort(_, _, _)
insertion_sort(t, es, i) ==
    LET c == sort_less(t, es[i], es[1])
        front == <<es[i]>> \o SubSeq(es, 1, i - 1) \o SubSeq(es, i + 1, Len(es))
        r == linear_insert(t, es, i, es[i])
    IN  IF i > Len(es) THEN [es |-> es, err |-> "none"]
        ELSE CASE c = "lt" -> insertion_sort(t, front, i + 1)
               [] c = "ge" -> IF r.err = "none" THEN insertion_sort(t, r.es, i + 1) ELSE r
               [] OTHER -> [es |-> es, err |-> c]

sort_without_key(s) ==
    LET sorted(r) == Result([s EXCEPT !.entries = r.es, !.ub = @ \/ r.err = "ub"],
                            r.err # "none")
    IN  sorted(insertion_sort(s.tag, s.entries, 2))

sort(s) ==
    LET done(r) == Result(r.st, IF r.err THEN "TypeError" ELSE "none")
    IN  IF Len(s.entries) = 0 THEN Result(s, "none")
        ELSE done(sort_without_key(s))

Sort_ ==
    /\ Near
    /\ \E r \in {sort(Cur)} :
         Commit(r.st, Did("sort", r.err, 0, PyNone, NoList, r.st))

(***************************************************************************)
(* sort(self, key=key): sort_with_key.  The key is code of the caller's:   *)
(* here it returns the negative of a number and raises for any other       *)
(* object, and raises whatever it is given inside the comparison that      *)
(* fate counts (0: inside none).                                           *)
(***************************************************************************)
\* PyObject_CallFunctionObjArgs(key, o, nullptr)
KeyNeg(o) == [o EXCEPT !.v = 0 - @]

\* a comparison that also answers "less" for two entries whose keys are equal
key_less_unstable(t, a, b, failing) ==
    LET T == RepOf(t)
        oa == IF t = "as_ob" THEN EntryOb(a) ELSE box_value(T, entry_value(a, T))
        ob == IF t = "as_ob" THEN EntryOb(b) ELSE box_value(T, entry_value(b, T))
        misread == t = "as_ob" /\ (a.rep # "ob" \/ b.rep # "ob")
        raises == failing \/ ~Numeric(oa) \/ ~Numeric(ob)
    IN  IF misread THEN [c |-> "ub", held |-> 0]
        ELSE IF raises THEN [c |-> "err", held |-> IF t = "as_ob" THEN 0 ELSE 2]
        ELSE [c |-> IF RichLt(KeyNeg(ob), KeyNeg(oa)) = "lt" THEN "ge" ELSE "lt",
              held |-> 0]

\* the comparison lambda of tag t applied to entries a and b: compare_objects
\* on the two pointers or, through box_and_compare, on the two entries
\* boxed.  compare_objects releases the keys it got before it throws;
\* box_and_compare releases lhs and rhs only when compare_objects returns.
\* held: the objects that are left unreleased
key_less(t, a, b, failing) ==
    LET T == RepOf(t)
        oa == IF t = "as_ob" THEN EntryOb(a) ELSE box_value(T, entry_value(a, T))
        ob == IF t = "as_ob" THEN EntryOb(b) ELSE box_value(T, entry_value(b, T))
        misread == t = "as_ob" /\ (a.rep # "ob" \/ b.rep # "ob")
        raises == failing \/ ~Numeric(oa) \/ ~Numeric(ob)
    IN  IF misread THEN [c |-> "ub", held |-> 0]
        ELSE IF raises THEN [c |-> "err", held |-> IF t = "as_ob" THEN 0 ELSE 2]
        ELSE [c |-> RichLt(KeyNeg(oa), KeyNeg(ob)), held |-> 0]

\* std::__unguarded_linear_insert with the lambda of sort_with_key, n
\* comparisons having been made before
RECURSIVE linear_insert_key(_, _, _, _, _, _)
linear_insert_key(t, es, pos, val, n, fate) ==
    LET r == IF pos > 1 THEN key_less(t, val, es[pos - 1], n + 1 = fate)
             ELSE [c |-> "ub", held |-> 0]
    IN  CASE r.c = "lt" ->
               linear_insert_key(t, [es EXCEPT ![pos] = es[pos - 1]], pos - 1, val,
                                 n + 1, fate)
          [] r.c = "ge" ->
               [es |-> [es EXCEPT ![pos] = val], err |-> "none", n |-> n + 1, held |-> 0]
          [] OTHER -> [es |-> es, err |-> r.c, n |-> n + 1, held |-> r.held]

\* std::__insertion_sort from the i-th element on with the lambda of
\* sort_with_key
RECURSIVE insertion_sort_key(_, _, _, _, _)
insertion_sort_key(t, es, i, n, fate) ==
    LET r0 == key_less(t, es[i], es[1], n + 1 = fate)
        front == <<es[i]>> \o SubSeq(es, 1, i - 1) \o SubSeq(es, i + 1, Len(es))
        r == linear_insert_key(t, es, i, es[i], n + 1, fate)
    IN  IF i > Len(es) THEN [es |-> es, err |-> "none", n |-> n, held |-> 0]
        ELSE CASE r0.c = "lt" -> insertion_sort_key(t, front, i + 1, n + 1, fate)
               [] r0.c = "ge" -> IF r.err = "none"
                                 THEN insertion_sort_key(t, r.es, i + 1, r.n, fate)
                                 ELSE r
               [] OTHER -> [es |-> es, err |-> r0.c, n |-> n + 1, held |-> r0.held]

sort_with_key(s, fate) ==
    LET r == insertion_sort_key(s.tag, s.entries, 2, 0, fate)
    IN  [st |-> [s EXCEPT !.entries = r.es, !.ub = @ \/ r.err = "ub"],
         err |-> r.err # "none", held |-> r.held]

\* sort with a key
sort_key(s, fate) ==
    LET r == sort_with_key(s, fate)
    IN  IF Len(s.entries) = 0 THEN [st |-> s, err |-> "none", held |-> 0]
        ELSE [st |-> r.st, err |-> IF r.err THEN "TypeError" ELSE "none", held |-> r.held]

SortKey_(fate) ==
    /\ Near
    /\ \E r \in {sort_key(Cur, fate)} :
         Commit(r.st, [Did("sort", r.err, 1, PyNone, NoList, r.st)
                         EXCEPT !.held = r.held])

(***************************************************************************)
(* index_helper(self, value, start, stop): the first index in [start,      *)
(* stop) whose entry equals value, -1 when there is none, -2 on error.     *)
(* The comparisons of this model do not call back into the list.           *)
(***************************************************************************)
Least(S) == CHOOSE x \in S : \A y \in S : x <= y

index_helper(s, value, start, stop, f) ==
    LET n == Len(s.entries)
        T == RepOf(s.tag)
        a == adjust_ix(start, n, TRUE)
        b == adjust_ix(stop, n, TRUE)
        m == maybe_unbox(T, value)
        \* 0-based indices the scan may visit
        range == {ix \in a..(b - 1) : ix < n}
        eq(ix) == LET e == s.entries[ix + 1]
                  IN  IF s.tag = "as_ob" THEN e.rep = "ob" /\ RichEq(EntryOb(e), value)
                      ELSE IF m.some THEN entry_value(e, T) = m.v
                      ELSE RichEq(box_value(T, entry_value(e, T)), value)
        hits == {ix \in range : eq(ix)}
        found == IF hits = {} THEN 0 - 1 ELSE Least(hits)
        visited == IF hits = {} THEN range ELSE {ix \in range : ix <= found}
        boxing == s.tag \in PrimTags /\ ~m.some
        fl == f - s.allocs
        fails == boxing /\ fl \in 1..Cardinality(visited)
        misread == s.tag = "as_ob" /\ \E ix \in visited : s.entries[ix + 1].rep # "ob"
        s1 == [s EXCEPT !.allocs = @ + (IF boxing THEN Cardinality(visited) ELSE 0),
                        !.ub = @ \/ misread]
    IN  IF n = 0 THEN [st |-> s, ix |-> 0 - 1]
        ELSE IF fails THEN [st |-> s1, ix |-> 0 - 2]
        ELSE [st |-> s1, ix |-> found]

(***************************************************************************)
(* remove(self, value)                                                     *)
(***************************************************************************)
remove(s, value, f) ==
    LET released(r) == IF r.st.tag = "as_ob"
                       THEN DecRef(r.st, r.st.entries[r.ix + 1]) ELSE r.st
        found(r) == IF r.ix = 0 - 2 THEN Result(r.st, "MemoryError")
                    ELSE IF r.ix = 0 - 1 THEN Result(r.st, "ValueError")
                    ELSE Result([released(r) EXCEPT !.entries = RemoveAt(@, r.ix + 1)],
                                "none")
    IN  found(index_helper(s, value, 0, Len(s.entries), f))

Remove_(value) ==
    /\ Near
    /\ \E r0 \in {remove(Cur, value, 0)} :
         \E f \in Failures(r0) :
           \E r \in {IF f = 0 THEN r0 ELSE remove(Cur, value, f)} :
             Commit(r.st, Did("remove", r.err, 0, value, NoList, r.st))

(***************************************************************************)
(* index(self, value[, start[, stop]]).  A bound is an integer object of   *)
(* any size; nbounds says how many of the two are given.                   *)
(***************************************************************************)
\* index::clamp_bound(ob, value): PyNumber_AsSsize_t, an integer beyond
\* Py_ssize_t being taken for 0 or for the size.  It returns true, with no
\* exception set, for every bound that PyNumber_AsSsize_t converts to -1
clamp_bound(ob, size) ==
    IF ob > INT64_MAX THEN [fail |-> FALSE, v |-> size]
    ELSE IF ob < INT64_MIN THEN [fail |-> FALSE, v |-> 0]
    ELSE IF ob = 0 - 1 THEN [fail |-> TRUE, v |-> ob]
    ELSE [fail |-> FALSE, v |-> ob]

\* index (the function of index_method): the object returned is allocated last
index_method(s, value, nbounds, start, stop, f) ==
    LET n == Len(s.entries)
        a == IF nbounds >= 1 THEN clamp_bound(start, n) ELSE [fail |-> FALSE, v |-> 0]
        b == IF nbounds >= 2 THEN clamp_bound(stop, n) ELSE [fail |-> FALSE, v |-> n]
        r == index_helper(s, value, a.v, b.v, f)
        s1 == [r.st EXCEPT !.allocs = @ + 1]
    IN  IF a.fail \/ b.fail THEN [st |-> s, err |-> "SystemError", ret |-> PyNone]
        ELSE IF r.ix = 0 - 2 THEN [st |-> r.st, err |-> "MemoryError", ret |-> PyNone]
        ELSE IF r.ix = 0 - 1 THEN [st |-> r.st, err |-> "ValueError", ret |-> PyNone]
        ELSE IF f - r.st.allocs = 1 THEN [st |-> s1, err |-> "MemoryError", ret |-> PyNone]
        ELSE [st |-> s1, err |-> "none", ret |-> PyLongOb(r.ix)]

Index_(value, nbounds, start, stop) ==
    /\ Near
    /\ \E r0 \in {index_method(Cur, value, nbounds, start, stop, 0)} :
         \E f \in Failures(r0) :
           \E r \in {IF f = 0 THEN r0 ELSE index_method(Cur, value, nbounds, start, stop, f)} :
             Commit(r.st, [DidR("index", r.err, 0, value, NoList, r.st, r.ret, NoList)
                             EXCEPT !.sl = <<start, stop, nbounds>>])

(***************************************************************************)
(* pop(self, index) and pop(self).  The reference of a boxed entry moves   *)
(* to the caller; a primitive entry is boxed for the caller.               *)
(***************************************************************************)
pop(s, hasarg, index, f) ==
    LET n == Len(s.entries)
        ix == IF hasarg THEN index ELSE n - 1
        e == s.entries[ix + 1]
        T == RepOf(s.tag)
        fails == s.tag \in PrimTags /\ f - s.allocs = 1
        out == IF s.tag = "as_ob" THEN EntryOb(e) ELSE box_value(T, entry_value(e, T))
        s1 == IF s.tag = "as_ob"
              THEN (IF e.rep = "ob" THEN [s EXCEPT !.refs = @ - 1] ELSE [s EXCEPT !.ub = TRUE])
              ELSE [s EXCEPT !.allocs = @ + 1]
        s2 == [s1 EXCEPT !.entries = RemoveAt(@, ix + 1)]
    IN  IF n = 0 \/ ~get_entry(s, ix) THEN [st |-> s, err |-> "IndexError", ret |-> PyNone]
        ELSE IF fails THEN [st |-> s2, err |-> "MemoryError", ret |-> PyNone]
        ELSE [st |-> s2, err |-> "none", ret |-> out]

Pop_(hasarg, index) ==
    /\ Near
    /\ \E r0 \in {pop(Cur, hasarg, index, 0)} :
         \E f \in Failures(r0) :
           \E r \in {IF f = 0 THEN r0 ELSE pop(Cur, hasarg, index, f)} :
             Commit(r.st, DidR("pop", r.err, IF hasarg THEN index ELSE Len(entries) - 1,
                               PyNone, NoList, r.st, r.ret, NoList))

(***************************************************************************)
(* new_jlist(tag, begin, end): a new list holding a copy of the range      *)
(***************************************************************************)
new_jlist(t, es) ==
    LET out == [NewList EXCEPT !.tag = t, !.entries = es]
    IN  IF t = "as_ob" THEN IncRefAll(out, es) ELSE out

(***************************************************************************)
(* repeat(self, times) and inplace_repeat(self, times)                     *)
(***************************************************************************)
RECURSIVE repeat_loop(_, _, _, _)
repeat_loop(out, es, t, times) ==
    LET o1 == [out EXCEPT !.entries = @ \o es]
        o2 == IF t = "as_ob" THEN IncRefAll(o1, es) ELSE o1
    IN  IF times <= 0 THEN out ELSE repeat_loop(o2, es, t, times - 1)

\* repeat whose copies share the references of the source
repeat_borrowed(s, times) ==
    repeat_loop([NewList EXCEPT !.tag = s.tag], s.entries, "unset", times)

repeat(s, times) == repeat_loop([NewList EXCEPT !.tag = s.tag], s.entries, s.tag, times)

\* repeat into a list of at most cap entries
RepeatWithin_(cap, times) ==
    /\ Near
    /\ Len(entries) * times <= cap
    /\ \E out \in {repeat(Cur, times)} :
         Commit([Cur EXCEPT !.ub = @ \/ out.ub],
                [DidR("repeat", "none", times, PyNone, NoList, out, PyNone, AsList(out))
                   EXCEPT !.oes = out.entries])

Repeat_(times) == RepeatWithin_(MaxLen, times)

inplace_repeat(s, times) ==
    IF times <= 0 THEN clear_helper(s)
    ELSE repeat_loop(s, s.entries, s.tag, times - 1)

InplaceRepeat_(times) ==
    /\ Near
    /\ Len(entries) * times <= MaxLen
    /\ \E s1 \in {inplace_repeat(Cur, times)} :
         Commit(s1, Did("inplace_repeat", "none", times, PyNone, NoList, s1))

Times == 0..2

(***************************************************************************)
(* Slices.  A slice argument is <<start, stop, step>> as PySlice_Unpack    *)
(* returns it; PySlice_AdjustIndices clips it to the length and returns    *)
(* the number of indices it selects.                                       *)
(***************************************************************************)
PySlice_AdjustIndices(length, start, stop, step) ==
    LET clip(x) == IF x < 0
                   THEN (IF x + length < 0 THEN (IF step < 0 THEN 0 - 1 ELSE 0)
                         ELSE x + length)
                   ELSE IF x >= length
                   THEN (IF step < 0 THEN length - 1 ELSE length)
                   ELSE x
        a == clip(start)
        b == clip(stop)
        len == IF step < 0
               THEN (IF b < a THEN (a - b - 1) \div (0 - step) + 1 ELSE 0)
               ELSE (IF a < b THEN (b - a - 1) \div step + 1 ELSE 0)
    IN  [start |-> a, stop |-> b, len |-> len]

\* the same copy made one entry at a time from the last to the first, so that
\* an entry of the source written before it is read is read as written
Move_stepwise(es, dst, src, n) ==
    LET f[k \in 0..n] ==
          IF k = 0 THEN es
          ELSE [f[k - 1] EXCEPT ![dst + n - k + 1] = f[k - 1][src + n - k + 1]]
    IN  f[n]

\* std::copy_backward of the n entries from src to the n entries from dst,
\* dst < src (0-based positions).  The two ranges may overlap; the entries are
\* trivially copyable and the library copies them with memmove, so every entry
\* moved is read before any is written
Move(es, dst, src, n) ==
    [i \in 1..Len(es) |-> IF i - 1 >= dst /\ i - 1 < dst + n
                          THEN es[i - dst + src] ELSE es[i]]

(***************************************************************************)
(* subscript(self, slice): a new list                                      *)
(***************************************************************************)
RECURSIVE stride(_, _, _, _)
stride(es, ix, stop, step) ==
    IF (step > 0 /\ ix < stop) \/ (step < 0 /\ ix > stop)
    THEN <<es[ix + 1]>> \o stride(es, ix + step, stop, step)
    ELSE <<>>

subscript(s, sl) ==
    LET a == PySlice_AdjustIndices(Len(s.entries), sl[1], sl[2], sl[3])
        start == IF a.start > a.stop THEN a.stop ELSE a.start
        picked == stride(s.entries, a.start, a.stop, sl[3])
    IN  IF sl[3] = 1 THEN new_jlist(s.tag, SubSeq(s.entries, start + 1, a.stop))
        ELSE IF s.tag = "as_ob"
        THEN IncRefAll([NewList EXCEPT !.tag = s.tag, !.entries = picked], picked)
        ELSE [NewList EXCEPT !.tag = s.tag, !.entries = picked]

GetSlice_(sl) ==
    /\ Near
    /\ \E out \in {subscript(Cur, sl)} :
         Commit([Cur EXCEPT !.ub = @ \/ out.ub],
                DidR("get_slice", "none", 0, PyNone, NoList, out, PyNone, AsList(out)))

(***************************************************************************)
(* set_subscript(self, slice, NULL): delete_slice                          *)
(***************************************************************************)
\* the loop shared by delete_loop_ob and delete_loop_prim
RECURSIVE delete_loop(_, _, _, _, _)
delete_loop(es, cur, ix, stop, step) ==
    LET lim == IF cur + step >= Len(es) THEN Len(es) - cur - 1 ELSE step - 1
    IN  IF cur < stop
        THEN delete_loop(Move(es, cur - ix, cur + 1, lim), cur + step, ix + 1, stop, step)
        ELSE es

delete_strided(s, start, stop, step, slicelength) ==
    LET n == Len(s.entries)
        garbage == [ix \in 1..slicelength |-> s.entries[start + (ix - 1) * step + 1]]
        es1 == delete_loop(s.entries, start, 0, stop, step)
        cur == start + slicelength * step
        es2 == IF cur < n THEN Move(es1, cur - slicelength, cur, n - cur) ELSE es1
        s1 == [s EXCEPT !.entries = SubSeq(es2, 1, n - slicelength)]
    IN  IF s.tag = "as_ob" THEN DecRefAll(s1, garbage) ELSE s1

\* the release loop of the unit-step case, which runs after the erase
RECURSIVE release_from(_, _, _)
release_from(s, ix, stop) ==
    IF ix >= stop \/ stop <= 0 THEN s
    ELSE IF ix >= Len(s.entries) THEN [s EXCEPT !.ub = TRUE]
    ELSE release_from(DecRef(s, s.entries[ix + 1]), ix + stop, stop)

delete_slice(s, start, stop, step, slicelength) ==
    LET erased == [s EXCEPT !.entries =
                     SubSeq(@, 1, start) \o SubSeq(@, stop + 1, Len(@))]
        nstop == start + 1
        nstart == nstop + step * (slicelength - 1) - 1
    IN  IF slicelength = 0 THEN s
        ELSE IF step = 1
        THEN (IF s.tag = "as_ob" THEN release_from(erased, start, stop) ELSE erased)
        ELSE IF step < 0 THEN delete_strided(s, nstart, nstop, 0 - step, slicelength)
        ELSE delete_strided(s, start, stop, step, slicelength)

\* set_subscript: the slice as delete_slice and set_slice receive it
slice_of(s, sl) ==
    LET a == PySlice_AdjustIndices(Len(s.entries), sl[1], sl[2], sl[3])
    IN  IF (sl[3] < 0 /\ a.start < a.stop) \/ (sl[3] > 0 /\ a.start > a.stop)
        THEN [a EXCEPT !.stop = a.start] ELSE a

DelSlice_(sl) ==
    /\ Near
    /\ \E a \in {slice_of(Cur, sl)} :
         \E s1 \in {delete_slice(Cur, a.start, a.stop, sl[3], a.len)} :
           Commit(s1, [Did("del_slice", "none", a.start, PyNone, NoList, s1)
                         EXCEPT !.sl = sl])

(***************************************************************************)
(* set_subscript(self, slice, value): set_slice.  other is the jlist       *)
(* assigned, isself says that it is self.                                  *)
(***************************************************************************)
\* set_loop_ob: the old entries are released after the new ones are stored
RECURSIVE set_loop_ob(_, _, _, _, _, _)
set_loop_ob(s, start, step, oes, ix, garbage) ==
    LET cur == start + ix * step
        ins == oes[ix + 1]
        s1 == [IncRef(s, ins) EXCEPT !.entries[cur + 1] = ins]
    IN  IF ix >= Len(oes) THEN DecRefAll(s, garbage)
        ELSE set_loop_ob(s1, start, step, oes, ix + 1, Append(garbage, s.entries[cur + 1]))

RECURSIVE set_loop_prim(_, _, _, _, _)
set_loop_prim(s, start, step, oes, ix) ==
    IF ix >= Len(oes) THEN s
    ELSE set_loop_prim([s EXCEPT !.entries[start + ix * step + 1] = oes[ix + 1]],
                       start, step, oes, ix + 1)

\* the entries std::vector::insert puts in before set_loop overwrites them:
\* Py_None in a boxed list, an uninitialised entry otherwise
Filler(t) == IF t = "as_ob" THEN ObEntry(PyNone) ELSE [rep |-> "uninit", k |-> "raw", v |-> 0]

\* set_slice_fill reading the entries to store from the vector of self as
\* the resize left it, as it does when oth is self and not a copy of it
set_slice_fill_alias(s, start, step, slicelength, oth) ==
    LET osz == Len(oth.entries)
        n == Len(s.entries)
        cut == IF s.tag = "as_ob"
               THEN DecRefAll(s, SubSeq(s.entries, osz + 1, slicelength)) ELSE s
        shrunk == [cut EXCEPT !.entries = SubSeq(@, 1, osz) \o SubSeq(@, slicelength + 1, n)]
        count == IF slicelength - n > osz - slicelength
                 THEN slicelength - n ELSE osz - slicelength
        fill == [i \in 1..count |-> Filler(s.tag)]
        held == IF s.tag = "as_ob" THEN IncRefAll(s, fill) ELSE s
        grown == [held EXCEPT !.entries = SubSeq(@, 1, start) \o fill \o SubSeq(@, start + 1, n)]
        sized == IF step # 1 THEN s
                 ELSE IF slicelength > osz THEN shrunk
                 ELSE IF slicelength > n \/ osz > slicelength THEN grown
                 ELSE s
        store(z) == IF osz = 0 THEN Result(z, "none")
                    ELSE IF z.tag = "as_ob"
                    THEN Result(set_loop_ob(z, start, step, SubSeq(z.entries, 1, osz), 0, <<>>), "none")
                    ELSE Result(set_loop_prim(z, start, step, SubSeq(z.entries, 1, osz), 0), "none")
    IN  IF step # 1 /\ slicelength # osz THEN Result(s, "ValueError")
        ELSE store(sized)

\* lines 1546-1597, oth being the list the first part settled on
set_slice_fill(s, start, step, slicelength, oth) ==
    LET osz == Len(oth.entries)
        n == Len(s.entries)
        cut == IF s.tag = "as_ob"
               THEN DecRefAll(s, SubSeq(s.entries, osz + 1, slicelength)) ELSE s
        shrunk == [cut EXCEPT !.entries = SubSeq(@, 1, osz) \o SubSeq(@, slicelength + 1, n)]
        count == IF slicelength - n > osz - slicelength
                 THEN slicelength - n ELSE osz - slicelength
        fill == [i \in 1..count |-> Filler(s.tag)]
        held == IF s.tag = "as_ob" THEN IncRefAll(s, fill) ELSE s
        grown == [held EXCEPT !.entries = SubSeq(@, 1, start) \o fill \o SubSeq(@, start + 1, n)]
        sized == IF step # 1 THEN s
                 ELSE IF slicelength > osz THEN shrunk
                 ELSE IF slicelength > n \/ osz > slicelength THEN grown
                 ELSE s
        store(z) == IF osz = 0 THEN Result(z, "none")
                    ELSE IF z.tag = "as_ob"
                    THEN Result(set_loop_ob(z, start, step, oth.entries, 0, <<>>), "none")
                    ELSE Result(set_loop_prim(z, start, step, oth.entries, 0), "none")
    IN  IF step # 1 /\ slicelength # osz THEN Result(s, "ValueError")
        ELSE store(sized)

\* new_jlist(self.tag, other's entries) at line 1533: the entries of other
\* are primitive and the new list counts a reference on each of them
Rewrapped(s, other) ==
    [s EXCEPT !.ub = @ \/ new_jlist("as_ob", other.entries).ub]

\* lines 1519-1544: the list to assign from, and self made ready for it
set_slice_other(s, slicelength, other, isself, f, g) ==
    LET copy == AsList(new_jlist(s.tag, s.entries))
        go(st, oth) == [st |-> st, oth |-> oth, err |-> "none", done |-> FALSE]
        boxed(b) == IF b.err THEN [go(b.st, other) EXCEPT !.err = "MemoryError"]
                    ELSE IF other.tag # "as_ob"
                    THEN go(Rewrapped(b.st, other), [other EXCEPT !.tag = "as_ob"])
                    ELSE go(b.st, other)
    IN  IF isself THEN go(s, copy)
        ELSE IF Len(s.entries) = 0 THEN go([s EXCEPT !.tag = other.tag], other)
        ELSE IF Len(other.entries) = 0 /\ slicelength = 0
        THEN [go(s, other) EXCEPT !.done = TRUE]
        ELSE IF s.tag # other.tag THEN boxed(maybe_box_values(s, f, g))
        ELSE go(s, other)

set_slice(s, start, step, slicelength, other, isself, f, g) ==
    LET fill(p) == IF p.err # "none" \/ p.done THEN Result(p.st, p.err)
                   ELSE set_slice_fill(p.st, start, step, slicelength, p.oth)
    IN  fill(set_slice_other(s, slicelength, other, isself, f, g))

\* the references set_slice leaves at its return.  src: those it took on
\* other (Py_INCREF at lines 1539 and 1543) less those it released
\* (Py_DECREF at line 1594); tmp: the same for the list it made in place of
\* other (new_jlist at lines 1520 and 1533), which starts with one
set_slice_refs(s, step, slicelength, other, isself, err) ==
    LET osz == IF isself THEN Len(s.entries) ELSE Len(other.entries)
        early == ~isself /\ Len(s.entries) # 0 /\ osz = 0 /\ slicelength = 0
        differ == ~isself /\ Len(s.entries) # 0 /\ ~early /\ s.tag # other.tag
        same == ~isself /\ Len(s.entries) # 0 /\ ~early /\ s.tag = other.tag
        copied == isself \/ (differ /\ err # "MemoryError" /\ other.tag # "as_ob")
        taken == same \/ (differ /\ err # "MemoryError" /\ other.tag = "as_ob")
        released == ~early /\ err = "none" /\ osz # 0
    IN  [src |-> (IF taken THEN 1 ELSE 0) - (IF released /\ ~copied THEN 1 ELSE 0),
         tmp |-> (IF copied THEN 1 ELSE 0) - (IF released /\ copied THEN 1 ELSE 0)]

\* set_subscript with a slice and a jlist
assign_slice(s, sl, other, isself, f, g) ==
    LET a == slice_of(s, sl)
    IN  set_slice(s, a.start, sl[3], a.len, other, isself, f, g)

\* cap: the longest list the assignment is explored for
SetSliceWithin_(cap, sl, other, isself) ==
    /\ Near
    /\ Len(entries) + (IF isself THEN Len(entries) ELSE Len(other.entries)) <= cap
    /\ \E r0 \in {assign_slice(Cur, sl, other, isself, 0, 1)} :
         \E f \in Failures(r0) : \E g \in GarbageFor(f) :
           \E r \in {IF f = 0 THEN r0 ELSE assign_slice(Cur, sl, other, isself, f, g)} :
             \E a \in {slice_of(Cur, sl)} :
               \E k \in {set_slice_refs(Cur, sl[3], a.len, other, isself, r.err)} :
                 Commit(r.st,
                        [Did(IF isself THEN "set_self" ELSE "set_slice", r.err,
                             a.start, PyNone,
                             IF isself THEN AsList(Cur) ELSE other, r.st)
                           EXCEPT !.sl = sl,
                                  !.oes = IF isself THEN entries ELSE other.entries,
                                  !.oref = k.src,
                                  !.held = k.tmp])

SetSlice_(sl, other, isself) == SetSliceWithin_(MaxLen, sl, other, isself)

\* set_slice(jlist&, ..., PyObject*): the sequence is first copied into a
\* new list, which extend_helper fills
set_slice_seq(s, start, step, slicelength, items, f, g) ==
    LET built(rhs) ==
            IF rhs.err THEN Result([s EXCEPT !.allocs = rhs.st.allocs], "MemoryError")
            ELSE set_slice([s EXCEPT !.allocs = rhs.st.allocs], start, step, slicelength,
                           AsList(rhs.st), FALSE, f, g)
    IN  built(extend_fast_sequence(NewList, items, f, g))

\* the references on rhs and on the list made in place of it that are left
\* at the return: rhs starts with one, which line 1614 releases when
\* extend_helper has not failed
set_slice_seq_refs(s, step, slicelength, items, f, g, err) ==
    LET rhs == extend_fast_sequence(NewList, items, f, g)
        inner == set_slice_refs(s, step, slicelength, AsList(rhs.st), FALSE, err)
    IN  IF rhs.err THEN 1 ELSE 1 + inner.src + inner.tmp - 1

\* set_subscript with a slice and any other sequence
assign_slice_seq(s, sl, items, f, g) ==
    LET a == slice_of(s, sl)
    IN  set_slice_seq(s, a.start, sl[3], a.len, items, f, g)

SetSliceSeq_(sl, items) ==
    /\ Near
    /\ Len(entries) + Len(items) <= MaxLen
    /\ \E r0 \in {assign_slice_seq(Cur, sl, items, 0, 1)} :
         \E f \in Failures(r0) : \E g \in GarbageFor(f) :
           \E r \in {IF f = 0 THEN r0 ELSE assign_slice_seq(Cur, sl, items, f, g)} :
             Commit(r.st,
                    [Did("set_slice_seq", r.err, slice_of(Cur, sl).start, PyNone,
                         [tag |-> "unset", entries |-> items], r.st)
                       EXCEPT !.sl = sl, !.oes = items,
                              !.held = set_slice_seq_refs(Cur, sl[3], slice_of(Cur, sl).len,
                                                          items, f, g, r.err)])

(***************************************************************************)
(* maybe_box_values(self) called on its own                                *)
(***************************************************************************)
Box_ ==
    /\ Near
    /\ \E r0 \in {maybe_box_values(Cur, 0, 1)} :
         \E f \in Failures(r0) : \E g \in GarbageFor(f) :
           \E r \in {IF f = 0 THEN r0 ELSE maybe_box_values(Cur, f, g)} :
             Commit(r.st, Did("box", Mem(r.err), 0, PyNone, NoList, r.st))

(***************************************************************************)
(* Every public operation, from a new list.                                *)
(***************************************************************************)
\* slice arguments: every unit-step slice within the list, one with a
\* negative start, the steps of two from each start, and the reversed list
Slices ==
    LET n == Len(entries)
    IN  {<<a, b, 1>> : a \in 0..n, b \in 0..n} \cup {<<0 - 1, n, 1>>}
          \cup {<<a, n, 2>> : a \in 0..n}
          \cup {<<n, b, 0 - 1>> : b \in {0 - n - 1, 0}}

\* the slices assigned to where every operation is explored: an empty one,
\* the whole list, its tail, every second entry, and the reversed list
FewSlices ==
    LET n == Len(entries)
    IN  {<<0, 0, 1>>, <<0, n, 1>>, <<1, n, 1>>, <<0, n, 2>>, <<n, 0 - n - 1, 0 - 1>>}

Next ==
    \/ \E ob \in Values : Append_(ob)
    \/ \E index \in Indices, ob \in Values : Insert_(index, ob)
    \/ \E index \in Indices, ob \in Values : SetItem_(index, ob)
    \/ \E index \in Indices : DelItem_(index)
    \/ Clear_
    \/ \E other \in OtherLists : Extend_(other)
    \/ \E items \in ArgSeqs : ExtendFast_(items)
    \/ \E items \in ArgSeqs : ExtendIter_(items)
    \/ Sort_
    \/ \E value \in Values : Remove_(value)
    \/ \E index \in Indices : Pop_(TRUE, index)
    \/ Pop_(FALSE, 0)
    \/ \E times \in Times : Repeat_(times)
    \/ \E times \in Times : InplaceRepeat_(times)
    \/ \E sl \in Slices : GetSlice_(sl)
    \/ \E sl \in Slices : DelSlice_(sl)
    \/ \E sl \in FewSlices, other \in OtherLists : SetSlice_(sl, other, FALSE)
    \/ \E sl \in FewSlices : SetSlice_(sl, NoList, TRUE)
    \/ \E sl \in FewSlices, items \in ArgSeqs : SetSliceSeq_(sl, items)

Spec == Init /\ [][Next]_vars

(***************************************************************************)
(* The behaviours that follow the arguments and the references of every    *)
(* operation (last is kept whole).                                         *)
(***************************************************************************)
Detailed == New /\ detail = TRUE

\* the stores of one object, and boxing
StoreNext ==
    \/ \E ob \in StoreValues : Append_(ob)
    \/ \E index \in Indices, ob \in StoreValues : Insert_(index, ob)
    \/ \E index \in Indices, ob \in StoreValues : SetItem_(index, ob)
    \/ \E index \in Indices : DelItem_(index)
    \/ Box_

StoreSpec == Detailed /\ [][StoreNext]_vars

\* the operations on one index, with the indices up to two beyond the list
\* on each side
ItemIndices == (0 - Len(entries) - 2)..(Len(entries) + 1)

ItemNext ==
    \/ \E ob \in Values : Append_(ob)
    \/ \E index \in ItemIndices : GetItem_(index)
    \/ \E index \in ItemIndices, ob \in Values : SetItem_(index, ob)
    \/ \E index \in ItemIndices : DelItem_(index)

ItemSpec == Detailed /\ [][ItemNext]_vars

\* appends and repetitions into a new list, by a factor that may be negative
RepeatTimes == (0 - 1)..MaxLen

RepeatNext ==
    \/ \E ob \in Values : Append_(ob)
    \/ \E times \in RepeatTimes : RepeatWithin_(MaxLen * MaxLen, times)

RepeatSpec == Detailed /\ [][RepeatNext]_vars

\* appends and searches for the index of a value, with no bound, a start, or
\* a start and a stop: every bound up to one beyond the list on each side,
\* and one beyond Py_ssize_t on each side.  A bound not given is 0
IndexValues == {PyLongOb(0), PyLongOb(1), PyFloatOb(2), PyStrOb}

IndexBounds == (0 - Len(entries) - 1)..(Len(entries) + 1) \cup {INT64_MIN - 1, INT64_MAX + 1}

IndexNext ==
    \/ \E ob \in IndexValues : Append_(ob)
    \/ \E value \in IndexValues : Index_(value, 0, 0, 0)
    \/ \E value \in IndexValues, start \in IndexBounds : Index_(value, 1, start, 0)
    \/ \E value \in IndexValues, start \in IndexBounds, stop \in IndexBounds :
         Index_(value, 2, start, stop)

IndexSpec == Detailed /\ [][IndexNext]_vars

\* appends to lists one longer than elsewhere, and sorts without a key and
\* with one, which raises inside any one comparison or inside none
\* (values: -1, 1, 2, 1.0 and a str)
SortValues == {PyLongOb(0 - 1), PyLongOb(1), PyLongOb(2), PyFloatOb(2), PyStrOb}

Fates == 0..(2 * MaxLen + 1)

SortNext ==
    \/ \E ob \in SortValues : AppendWithin_(MaxLen + 1, ob)
    \/ Sort_
    \/ \E fate \in Fates : SortKey_(fate)

SortSpec == Detailed /\ [][SortNext]_vars

\* appends and pops, with and without an index
PopNext ==
    \/ \E ob \in Values : Append_(ob)
    \/ \E index \in ItemIndices : Pop_(TRUE, index)
    \/ Pop_(FALSE, 0)

PopSpec == Detailed /\ [][PopNext]_vars

\* a list that is only ever given exact integers within the range, one at
\* a time or in a list or a tuple
PureSeqs == SeqsOver(SmallLongs, MaxSeq)

PureNext ==
    \/ \E ob \in SmallLongs : Append_(ob)
    \/ \E index \in Indices, ob \in SmallLongs : Insert_(index, ob)
    \/ \E index \in Indices, ob \in SmallLongs : SetItem_(index, ob)
    \/ \E items \in PureSeqs : ExtendFast_(items)

PureSpec == Detailed /\ [][PureNext]_vars

\* the operations that reserve the slots of the incoming values before they
\* store them: append, insert and extend from a list or a tuple
ReserveValues == {PyLongOb(1), PyFloatOb(1), PyStrOb}

ReserveNext ==
    \/ \E ob \in ReserveValues : Append_(ob)
    \/ \E index \in Indices, ob \in ReserveValues : Insert_(index, ob)
    \/ \E items \in ArgSeqs : ExtendFast_(items)

ReserveSpec == Detailed /\ [][ReserveNext]_vars

\* append, set, delete, extend, clear and sort
MutateNext ==
    \/ \E ob \in Values : Append_(ob)
    \/ \E index \in Indices, ob \in Values : SetItem_(index, ob)
    \/ \E index \in Indices : DelItem_(index)
    \/ \E other \in OtherLists : Extend_(other)
    \/ \E items \in ArgSeqs : ExtendFast_(items)
    \/ \E items \in ArgSeqs : ExtendIter_(items)
    \/ Clear_
    \/ Sort_

MutateSpec == Detailed /\ [][MutateNext]_vars

(***************************************************************************)
(* Searches and comparisons whose generic comparisons call back.           *)
(* PyObject_RichCompareBool on an object with a __eq__ of the caller's     *)
(* runs that code before it returns, and that code may call any operation  *)
(* of the list being scanned.  The generic loops are therefore taken one   *)
(* iteration at a time: a read (loop condition, entry access, boxing),     *)
(* then the comparison, during which operations of the list may run, then  *)
(* the return of the comparison.                                           *)
(***************************************************************************)
\* an object whose __eq__ is code of the caller's
PyUserOb == [k |-> "user", v |-> 0]

ScanValues == {PyLongOb(1), PyFloatOb(1), PyUserOb}

SearchOps == {"index", "contains", "remove"}

\* the loops of index_helper that compare generically: the Boxed loop, and
\* boxing_index when the value is not of the list's primitive type
generic_search(s, value) ==
    IF s.tag = "as_ob" THEN TRUE
    ELSE IF s.tag \in PrimTags THEN ~maybe_unbox(RepOf(s.tag), value).some
    ELSE FALSE

\* the loop condition with the bound read once, before the loop
scan_bound_cached(sc, n) == sc.ix < sc.stop

\* the loop condition of the generic loops of index_helper, n being
\* self.size() as it is now
scan_bound(sc, n) == sc.ix < sc.stop /\ sc.ix < n

\* the object a loop of type T compares for entry e: the pointer the entry
\* holds, or the entry boxed as a T
scan_load(e, T) ==
    IF T = "ob"
    THEN (IF e.rep = "ob" THEN EntryOb(e) ELSE [k |-> "junk", v |-> e.v])
    ELSE box_value(T, entry_value(e, T))

\* entry e does not hold what a loop of type T reads
scan_misread(e, T) == e.rep \notin (IF T = "ob" THEN {"ob"} ELSE {T, "zero"})

\* what PyObject_RichCompareBool(lhs, rhs, Py_EQ) can return
Outcomes(sc) ==
    IF sc.calls THEN {"true", "false", "error"}
    ELSE {IF RichEq(sc.lhs, sc.rhs) THEN "true" ELSE "false"}

\* the loop is left: what is kept is the operation, its result, what its
\* reads did (oob: one left the vector; raw: one took an entry of a Boxed list
\* for a primitive; cut: the loop ended at the length the list has now,
\* before the bound it started with), and the boxed entries it still holds
Finished(sc, result) ==
    [ScanIdle EXCEPT !.op = sc.op, !.result = result,
                     !.oob = sc.oob, !.raw = sc.raw, !.cut = sc.cut,
                     !.held = sc.held]

\* the loop boxes the primitive entry it compares
Boxing(sc) == sc.mode # "ob" \/ sc.omode # "ob"

\* the boxed entry is released only when the comparison returned a result
drop_boxed_unless_error(sc, r) ==
    IF Boxing(sc) /\ r # "error" THEN [sc EXCEPT !.held = @ - 1] ELSE sc

\* Py_DECREF(boxed) after PyObject_RichCompareBool has returned r
drop_boxed(sc, r) ==
    IF Boxing(sc) THEN [sc EXCEPT !.held = @ - 1] ELSE sc

\* the comparison of lhs and rhs begins
Comparing(sc, lhs, rhs, raw) ==
    [sc EXCEPT !.phase = "cmp", !.lhs = lhs, !.rhs = rhs,
               !.held = IF Boxing(sc) THEN @ + 1 ELSE @,
               !.calls = lhs.k = "user" \/ rhs.k = "user",
               !.raw = @ \/ raw]

\* index(value), value in self, remove(value): index_helper enters a
\* generic loop
ScanStart_(op, value) ==
    /\ Near
    /\ scan.phase = "idle"
    /\ Len(entries) > 0
    /\ generic_search(Cur, value)
    /\ scan' = [ScanIdle EXCEPT !.phase = "check", !.op = op, !.mode = RepOf(tag),
                                !.ix = adjust_ix(0, Len(entries), TRUE),
                                !.stop = adjust_ix(INT64_MAX, Len(entries), TRUE),
                                !.value = value]
    /\ UNCHANGED <<peer, iter, tag, entries, refs, ub, last, detail>>

\* one iteration of a generic loop of index_helper, up to the comparison
ScanRead_ ==
    /\ ~ub
    /\ scan.phase = "check"
    /\ scan.op \in SearchOps
    /\ LET n == Len(entries)
           T == scan.mode
           e == entries[scan.ix + 1]
       IN  IF ~scan_bound(scan, n)
           THEN /\ scan' = Finished([scan EXCEPT !.cut = scan.ix < scan.stop], 0 - 1)
                /\ ub' = ub
           ELSE IF scan.ix >= n
           THEN scan' = [Finished(scan, 0 - 2) EXCEPT !.oob = TRUE] /\ ub' = TRUE
           ELSE \E fail \in (IF T = "ob" THEN {FALSE} ELSE BOOLEAN) :
                  IF fail
                  THEN scan' = Finished(scan, 0 - 2) /\ ub' = ub
                  ELSE /\ scan' = Comparing(scan, scan_load(e, T), scan.value,
                                            T # "ob" /\ tag = "as_ob")
                       /\ ub' = scan_misread(e, T)
    /\ UNCHANGED <<peer, iter, tag, entries, refs, last, detail>>

\* remove, once index_helper has returned ix
remove_found(s, ix) ==
    LET released == IF s.tag = "as_ob" THEN DecRef(s, s.entries[ix + 1]) ELSE s
    IN  IF ix >= Len(s.entries) THEN [s EXCEPT !.ub = TRUE]
        ELSE [released EXCEPT !.entries = RemoveAt(@, ix + 1)]

\* the comparison of a generic loop of index_helper returns
ScanCompared_ ==
    /\ ~ub
    /\ scan.phase = "cmp"
    /\ scan.op \in SearchOps
    /\ \E r \in Outcomes(scan) : \E sc \in {drop_boxed(scan, r)} :
         CASE r = "error" ->
                /\ scan' = Finished(sc, 0 - 2)
                /\ UNCHANGED <<peer, iter, tag, entries, refs, ub, last, detail>>
           [] r = "false" ->
                /\ scan' = [sc EXCEPT !.phase = "check", !.ix = @ + 1]
                /\ UNCHANGED <<peer, iter, tag, entries, refs, ub, last, detail>>
           [] r = "true" /\ scan.op # "remove" ->
                /\ scan' = Finished(sc, scan.ix)
                /\ UNCHANGED <<peer, iter, tag, entries, refs, ub, last, detail>>
           [] r = "true" /\ scan.op = "remove" ->
                /\ scan' = Finished(sc, scan.ix)
                /\ \E s1 \in {remove_found(Cur, scan.ix)} :
                     Store(s1, Did("remove", "none", 0, scan.value, NoList, s1))

\* the jlists a list is compared with
EqLists == {AsList(init(items)) : items \in SeqsOver(ScanValues, MaxSeq)}

\* the significand of a double is shorter than an std::int64_t (53 bits
\* against 63): here by two bits
DblBits == IntBits - 2

\* the conversion of the std::int64_t n to double, in halves: the nearest
\* number with a significand of DblBits bits, the even one of two as near
to_double(n) ==
    LET a == IF n < 0 THEN 0 - n ELSE n
        k == CHOOSE k \in 0..IntBits : 2 ^ k <= a /\ a < 2 ^ (k + 1)
        ulp == IF k >= DblBits THEN 2 ^ (k - DblBits + 1) ELSE 1
        q == a \div ulp
        r == a % ulp
        m == (IF 2 * r > ulp \/ (2 * r = ulp /\ q % 2 = 1) THEN q + 1 ELSE q) * ulp
    IN  IF n = 0 THEN 0 ELSE IF n < 0 THEN 0 - 2 * m ELSE 2 * m

\* the number, in halves, that an entry of type T is compared as with an
\* entry of type U: lhs != rhs converts an std::int64_t compared with a
\* double to double
prim_halves(e, T, U) ==
    IF T # "int" THEN entry_value(e, T)
    ELSE IF U = "int" THEN 2 * entry_value(e, T)
    ELSE to_double(entry_value(e, T))

\* richcompare::prim_loop: 1 when every pair is equal, 0 otherwise
prim_loop(s, other) ==
    IF \A i \in DOMAIN s.entries :
           prim_halves(s.entries[i], RepOf(s.tag), RepOf(other.tag))
             = prim_halves(other.entries[i], RepOf(other.tag), RepOf(s.tag))
    THEN 1 ELSE 0

\* PyBool_FromLong(cmp == Py_EQ) where the lists are equal (eq = 1) and
\* PyBool_FromLong(cmp == Py_NE) where they are not (eq = 0)
Answer(sc, eq) == IF sc.ne THEN 1 - eq ELSE eq

\* self == other (ne: self != other), other a jlist: richcompare up to its
\* loop.  The result is 1 for True and 0 for False; stop keeps the length the
\* two lists have when the loop begins, which the loop itself never uses.
\* Where the operations are followed, last records the comparison.
Compare_(ne, other) ==
    /\ Near
    /\ scan.phase = "idle"
    /\ \E sc \in {[ScanIdle EXCEPT !.op = "eq", !.ne = ne]} :
         scan' = IF Len(entries) # Len(other.entries)
                 THEN [ScanIdle EXCEPT !.op = "eq", !.result = Answer(sc, 0)]
                 ELSE IF Len(entries) = 0
                 THEN [ScanIdle EXCEPT !.op = "eq", !.result = Answer(sc, 1)]
                 ELSE IF tag \in PrimTags /\ other.tag \in PrimTags
                 THEN [ScanIdle EXCEPT !.op = "eq",
                                       !.result = Answer(sc, prim_loop(Cur, other))]
                 ELSE [sc EXCEPT !.phase = "check",
                                 !.mode = RepOf(tag), !.omode = RepOf(other.tag),
                                 !.stop = Len(entries),
                                 !.other = other.entries, !.result = 1]
    /\ last' = IF detail
               THEN [Did(IF ne THEN "ne" ELSE "eq", "none", 0, PyNone, other, Cur)
                       EXCEPT !.oes = other.entries]
               ELSE last
    /\ UNCHANGED <<peer, iter, tag, entries, refs, ub, detail>>

EqStart_(other) == Compare_(FALSE, other)

\* the loop condition of the loops of richcompare, n being self.size() as
\* it is now
eq_bound(sc, n) == sc.ix < n

\* one iteration of a generic loop of richcompare, up to the comparison
EqRead_ ==
    /\ ~ub
    /\ scan.phase = "check"
    /\ scan.op = "eq"
    /\ LET n == Len(entries)
           e == entries[scan.ix + 1]
           o == scan.other[scan.ix + 1]
           boxing == Boxing(scan)
       IN  IF ~eq_bound(scan, n)
           THEN scan' = Finished(scan, Answer(scan, 1)) /\ ub' = ub
           ELSE IF scan.ix >= Len(scan.other) \/ scan.ix >= n
           THEN scan' = [Finished(scan, 0 - 2) EXCEPT !.oob = TRUE] /\ ub' = TRUE
           ELSE \E fail \in (IF boxing THEN BOOLEAN ELSE {FALSE}) :
                  IF fail
                  THEN scan' = Finished(scan, 0 - 2) /\ ub' = ub
                  ELSE /\ scan' = Comparing(scan, scan_load(e, scan.mode),
                                            scan_load(o, scan.omode),
                                            scan.mode # "ob" /\ tag = "as_ob")
                       /\ ub' = (scan_misread(e, scan.mode)
                                   \/ scan_misread(o, scan.omode))
    /\ UNCHANGED <<peer, iter, tag, entries, refs, last, detail>>

\* the comparison of a generic loop of richcompare returns
EqCompared_ ==
    /\ ~ub
    /\ scan.phase = "cmp"
    /\ scan.op = "eq"
    /\ \E r \in Outcomes(scan) : \E sc \in {drop_boxed(scan, r)} :
         scan' = CASE r = "error" -> Finished(sc, 0 - 2)
                   [] r = "false" -> Finished(sc, Answer(sc, 0))
                   [] r = "true" -> [sc EXCEPT !.phase = "check", !.ix = @ + 1]
    /\ UNCHANGED <<peer, iter, tag, entries, refs, ub, last, detail>>

\* a comparison that calls back is under way, or nothing is
CanCall == scan.phase = "idle" \/ (scan.phase = "cmp" /\ scan.calls)

\* the code called back deletes the last entry of the other operand
OtherShrinks_ ==
    /\ ~ub
    /\ scan.phase = "cmp" /\ scan.calls
    /\ scan.op = "eq"
    /\ scan.other # <<>>
    /\ scan' = [scan EXCEPT !.other = SubSeq(@, 1, Len(@) - 1)]
    /\ UNCHANGED <<peer, iter, tag, entries, refs, ub, last, detail>>

ScanNext ==
    \/ \E op \in SearchOps, value \in ScanValues : ScanStart_(op, value)
    \/ ScanRead_
    \/ ScanCompared_
    \/ \E other \in EqLists : EqStart_(other)
    \/ EqRead_
    \/ EqCompared_
    \/ OtherShrinks_
    \/ CanCall /\ \E ob \in ScanValues : Append_(ob)
    \/ CanCall /\ \E index \in Indices, ob \in ScanValues : SetItem_(index, ob)
    \/ CanCall /\ \E index \in Indices : DelItem_(index)
    \/ CanCall /\ Clear_

ScanSpec == Init /\ [][ScanNext]_vars

(***************************************************************************)
(* Comparisons of lists of numbers and strings, which call no code of the  *)
(* caller's: the list is appended to between two comparisons.  The values  *)
(* are an integer and a float that are equal, the largest integer and the  *)
(* double it converts to, and a string.                                    *)
(***************************************************************************)
EqValues == {PyLongOb(1), PyFloatOb(2), PyLongOb(INT64_MAX),
             PyFloatOb(to_double(INT64_MAX)), PyStrOb}

EqOthers == {AsList(init(items)) : items \in SeqsOver(EqValues, MaxSeq)}

EqNext ==
    \/ scan.phase = "idle" /\ \E ob \in EqValues : Append_(ob)
    \/ \E ne \in BOOLEAN, other \in EqOthers : Compare_(ne, other)
    \/ EqRead_
    \/ EqCompared_

EqSpec == Detailed /\ [][EqNext]_vars

\* the same with an object whose __eq__ is code of the caller's, which
\* returns or raises and changes neither list
CallValues == {PyLongOb(1), PyFloatOb(1), PyStrOb, PyUserOb}

CallOthers == {AsList(init(items)) : items \in SeqsOver(CallValues, MaxSeq)}

CallEqNext ==
    \/ scan.phase = "idle" /\ \E ob \in CallValues : Append_(ob)
    \/ \E ne \in BOOLEAN, other \in CallOthers : Compare_(ne, other)
    \/ EqRead_
    \/ EqCompared_

CallEqSpec == Detailed /\ [][CallEqNext]_vars

(***************************************************************************)
(* ops.sum(iterable, start), of ops.cc.  ops.cc tells a Boxed list whose   *)
(* entries all have one type, kept in the list (as_homogeneous_ob), from   *)
(* any other Boxed list (as_heterogeneous_ob).  A str is the number that   *)
(* its letters write with the digits 1 and 2 ('' is 0, 'a' 1, 'b' 2, 'ab' *)
(* 4, 'ba' 5).                                                             *)
(***************************************************************************)
\* nullptr
NULL == [k |-> "null", v |-> 0]

\* the number of letters of the str written n
StrLen(n) == CHOOSE k \in 0..(n + 1) : 2 ^ k - 1 <= n /\ n < 2 ^ (k + 1) - 1

\* PyUnicode_Concat(a, b)
Concat(a, b) == [k |-> "str", v |-> a.v * 2 ^ StrLen(b.v) + b.v]

\* PyNumber_Add(a, b): ints and bools add to an int of any size, a float
\* makes the sum a float (the floats met here are small multiples of one
\* half, whose sums are exact), two strs are joined, a following b;
\* anything else raises TypeError
PyNumber_Add(a, b) ==
    IF a.k \in {"long", "bool"} /\ b.k \in {"long", "bool"} THEN PyLongOb(a.v + b.v)
    ELSE IF Numeric(a) /\ Numeric(b) THEN PyFloatOb(Halves(a) + Halves(b))
    ELSE IF a.k = "str" /\ b.k = "str" THEN Concat(a, b)
    ELSE NULL

\* __builtin_add_overflow(a, b, &r)
add_overflow(a, b) == a + b > INT64_MAX \/ a + b < INT64_MIN

\* the loop of boxing_sum from the entry at ix (1-based) on, result being
\* the sum so far.  ret: the object returned; held: the objects created and
\* neither returned nor released
RECURSIVE boxing_loop(_, _, _, _)
boxing_loop(s, T, result, ix) ==
    LET e == s.entries[ix]
        boxed == IF T = "ob" THEN EntryOb(e) ELSE box_value(T, entry_value(e, T))
        intermediate == PyNumber_Add(result, boxed)
    IN  IF ix > Len(s.entries) THEN [ret |-> result, ub |-> FALSE, held |-> 0]
        ELSE IF T = "ob" /\ e.rep # "ob" THEN [ret |-> NULL, ub |-> TRUE, held |-> 0]
        ELSE IF intermediate = NULL THEN [ret |-> NULL, ub |-> FALSE, held |-> 0]
        ELSE boxing_loop(s, T, intermediate, ix + 1)

\* a boxing_sum that starts one entry late
boxing_sum_skip(s, T, has, result, start) ==
    boxing_loop(s, T, IF has THEN result ELSE PyLongOb(0), start + 2)

\* boxing_sum<T>(self, result, start): start is the 0-based index
boxing_sum(s, T, has, result, start) ==
    boxing_loop(s, T, IF has THEN result ELSE PyLongOb(0), start + 1)

\* the loop of sum<std::int64_t>::f from the entry at ix (1-based) on
RECURSIVE sum_int_loop(_, _, _)
sum_int_loop(s, result, ix) ==
    LET e == s.entries[ix]
    IN  IF ix > Len(s.entries) THEN [ret |-> PyLongOb(result), ub |-> FALSE, held |-> 0]
        ELSE IF add_overflow(result, entry_value(e, "int"))
             THEN boxing_sum(s, "int", TRUE, box_value("int", result), ix - 1)
        ELSE sum_int_loop(s, result + entry_value(e, "int"), ix + 1)

\* sum<std::int64_t>::f
sum_int(s, has, start_ob) ==
    LET maybe_result == maybe_unbox_int(start_ob)
    IN  IF has /\ ~maybe_result.some THEN boxing_sum(s, "int", TRUE, start_ob, 0)
        ELSE sum_int_loop(s, IF has THEN maybe_result.v ELSE 0, 1)

\* the loop of sum<double>::f from the entry at ix (1-based) on
RECURSIVE sum_double_loop(_, _, _)
sum_double_loop(s, result, ix) ==
    IF ix > Len(s.entries) THEN [ret |-> PyFloatOb(result), ub |-> FALSE, held |-> 0]
    ELSE sum_double_loop(s, result + entry_value(s.entries[ix], "dbl"), ix + 1)

\* sum<double>::f
sum_double(s, has, start_ob) ==
    LET maybe_result == maybe_unbox_int(start_ob)
    IN  IF ~has THEN sum_double_loop(s, 0, 1)
        ELSE IF start_ob.k = "float" THEN sum_double_loop(s, start_ob.v, 1)
        ELSE IF start_ob.k = "long" /\ maybe_result.some
             THEN sum_double_loop(s, to_double(maybe_result.v), 1)
        ELSE boxing_sum(s, "dbl", TRUE, start_ob, 0)

\* tp->tp_as_number->nb_add or tp->tp_as_sequence->sq_concat applied to a
\* and b, both of type tp
type_add(tp, a, b) ==
    IF tp \in {"long", "bool", "float", "str"} THEN PyNumber_Add(a, b) ELSE NULL

\* sum<PyObject*>::homogeneous_loop from the entry at ix (1-based) on; the
\* entry is the first argument of add and the sum so far the second
RECURSIVE homogeneous_loop(_, _, _, _)
homogeneous_loop(s, tp, result, ix) ==
    LET e == s.entries[ix]
        summand == type_add(tp, EntryOb(e), result)
    IN  IF ix > Len(s.entries) THEN [ret |-> result, ub |-> FALSE, held |-> 0]
        ELSE IF e.rep # "ob" THEN [ret |-> NULL, ub |-> TRUE, held |-> 0]
        ELSE IF summand = NULL THEN [ret |-> NULL, ub |-> FALSE, held |-> 0]
        ELSE IF summand.k # tp
             THEN [boxing_sum(s, "ob", TRUE, summand, ix) EXCEPT !.held = 1]
        ELSE homogeneous_loop(s, tp, summand, ix + 1)

\* sum<PyObject*>::homogeneous.  The loop releases result, of which the
\* first is the caller's start (over)
sum_homogeneous(s, has, result) ==
    LET tp == EntryOb(s.entries[1]).k
        r == homogeneous_loop(s, tp, result, 1)
    IN  IF ~has \/ result.k # tp
        THEN [ret |-> boxing_sum(s, "ob", has, result, 0), over |-> FALSE]
        ELSE [ret |-> r, over |-> TRUE]

\* sum; homogeneous: the tag of a Boxed list is as_homogeneous_ob
sum(s, homogeneous, has, start) ==
    LET r == CASE s.tag = "as_int" -> [ret |-> sum_int(s, has, start), over |-> FALSE]
               [] s.tag = "as_double" -> [ret |-> sum_double(s, has, start), over |-> FALSE]
               [] s.tag = "as_ob" /\ homogeneous -> sum_homogeneous(s, has, start)
               [] OTHER -> [ret |-> boxing_sum(s, "ob", has, start, 0), over |-> FALSE]
    IN  IF Len(s.entries) = 0
        THEN [st |-> s, err |-> "none", ret |-> IF has THEN start ELSE PyLongOb(0),
              held |-> 0, over |-> FALSE]
        ELSE [st |-> [s EXCEPT !.ub = @ \/ r.ret.ub],
              err |-> IF r.ret.ret = NULL THEN "TypeError" ELSE "none",
              ret |-> IF r.ret.ret = NULL THEN PyNone ELSE r.ret.ret,
              held |-> r.ret.held, over |-> r.over]

\* the entries of the list are pointers to objects of one type
OneType(es) ==
    \A i, j \in DOMAIN es : es[i].rep = "ob" /\ es[i].k = es[j].k

\* sum(self) (has = FALSE) and sum(self, start).  ix: whether a start was
\* given; sl[1]: whether the list is as_homogeneous_ob; rels: the start
\* when it is released without having been acquired
Sum_(homogeneous, has, start) ==
    /\ Near
    /\ homogeneous => (tag = "as_ob" /\ Len(entries) > 0 /\ OneType(entries))
    /\ \E r \in {sum(Cur, homogeneous, has, start)} :
         Commit(r.st, [DidR("sum", r.err, IF has THEN 1 ELSE 0, IF has THEN start ELSE PyNone,
                            NoList, r.st, r.ret, NoList)
                         EXCEPT !.sl = <<IF homogeneous THEN 1 ELSE 0, 0, 0>>,
                                !.held = r.held,
                                !.rels = IF r.over THEN <<start>> ELSE <<>>])

\* appends of ints up to the ends of the int64 range, and sums without a
\* start and with one that is an int of any size or a bool
SumIntValues == {PyLongOb(INT64_MIN), PyLongOb(0 - 1), PyLongOb(1), PyLongOb(INT64_MAX)}

SumIntStarts ==
    {PyLongOb(0 - 1), PyLongOb(INT64_MAX), BigLong, PyLongOb(INT64_MIN - 1), PyBoolOb}

SumIntNext ==
    \/ \E ob \in SumIntValues : AppendWithin_(MaxLen + 1, ob)
    \/ Sum_(FALSE, FALSE, PyNone)
    \/ \E start \in SumIntStarts : Sum_(FALSE, TRUE, start)

SumIntSpec == Detailed /\ [][SumIntNext]_vars

\* appends that make Boxed lists of strs, of bools and of both, and sums of
\* them with and without a start; a list whose entries have one type is
\* summed as as_homogeneous_ob and as as_heterogeneous_ob
StrA == [k |-> "str", v |-> 1]

StrB == [k |-> "str", v |-> 2]

SumObValues == {StrA, StrB, PyBoolOb, PyNone}

SumObStarts == {PyStrOb, StrB, PyBoolOb, PyLongOb(1)}

SumObNext ==
    \/ \E ob \in SumObValues : AppendWithin_(MaxLen + 1, ob)
    \/ \E homogeneous \in BOOLEAN : Sum_(homogeneous, FALSE, PyNone)
    \/ \E homogeneous \in BOOLEAN, start \in SumObStarts : Sum_(homogeneous, TRUE, start)

SumObSpec == Detailed /\ [][SumObNext]_vars

(***************************************************************************)
(* ops.all(iterable) and ops.any(iterable), of ops.cc.                     *)
(***************************************************************************)
\* Py_False
PyFalse == [k |-> "bool", v |-> 0]

\* PyObject_IsTrue(ob): 1, 0
PyObject_IsTrue(ob) ==
    IF ob.k \in {"long", "bool", "float", "str"} THEN (IF ob.v # 0 THEN 1 ELSE 0)
    ELSE IF ob.k = "none" THEN 0
    ELSE 1

\* the is_true that any_all<any, PyObject*>::homogeneous gives its loop for
\* the type tp: identity with Py_True, nb_bool, or mp_length (a str has no
\* nb_bool)
is_true_of(tp, ob) ==
    CASE tp = "bool" -> IF ob = PyBoolOb THEN 1 ELSE 0
      [] tp \in {"long", "float"} -> IF ob.v # 0 THEN 1 ELSE 0
      [] tp = "str" -> StrLen(ob.v)
      [] OTHER -> 1

\* a loop that answers any, not all, when it reaches the end
RECURSIVE any_all_loop_end_any(_, _, _, _)
any_all_loop_end_any(any, truth, es, ix) ==
    IF ix > Len(es) THEN (IF any THEN 1 ELSE 0)
    ELSE IF any /\ truth[ix] # 0 THEN 1
    ELSE IF ~any /\ truth[ix] = 0 THEN 0
    ELSE any_all_loop_end_any(any, truth, es, ix + 1)

\* the loops of any_all<any, T> from the entry at ix (1-based) on; truth[i]
\* is what is_true returns for the i-th entry (the entry itself when T is
\* primitive)
RECURSIVE any_all_loop(_, _, _, _)
any_all_loop(any, truth, es, ix) ==
    IF ix > Len(es) THEN (IF any THEN 0 ELSE 1)
    ELSE IF any /\ truth[ix] # 0 THEN 1
    ELSE IF ~any /\ truth[ix] = 0 THEN 0
    ELSE any_all_loop(any, truth, es, ix + 1)

\* any_all<any>; homogeneous: the tag of a Boxed list is as_homogeneous_ob
any_all(s, any, homogeneous) ==
    LET es == s.entries
        tp == EntryOb(es[1]).k
        T == RepOf(s.tag)
        misread == s.tag = "as_ob" /\ \E i \in DOMAIN es : es[i].rep # "ob"
        truth == [i \in DOMAIN es |->
                    IF s.tag \in PrimTags THEN entry_value(es[i], T)
                    ELSE IF homogeneous THEN is_true_of(tp, EntryOb(es[i]))
                    ELSE PyObject_IsTrue(EntryOb(es[i]))]
        out == IF s.tag = "as_ob" /\ homogeneous /\ tp = "none" THEN 0
               ELSE any_all_loop(any, truth, es, 1)
    IN  IF Len(es) = 0
        THEN [st |-> s, err |-> "none", ret |-> IF any THEN PyFalse ELSE PyBoolOb]
        ELSE IF misread THEN [st |-> [s EXCEPT !.ub = TRUE], err |-> "none", ret |-> PyFalse]
        ELSE [st |-> s, err |-> "none", ret |-> IF out # 0 THEN PyBoolOb ELSE PyFalse]

\* all(self) and any(self).  sl[1]: whether the list is as_homogeneous_ob
AnyAll_(any, homogeneous) ==
    /\ Near
    /\ homogeneous => (tag = "as_ob" /\ Len(entries) > 0 /\ OneType(entries))
    /\ \E r \in {any_all(Cur, any, homogeneous)} :
         Commit(r.st, [DidR(IF any THEN "any" ELSE "all", r.err, 0, PyNone,
                            NoList, r.st, r.ret, NoList)
                         EXCEPT !.sl = <<IF homogeneous THEN 1 ELSE 0, 0, 0>>])

\* appends of true and of false objects of every kind, and all and any of
\* the list; a list whose entries have one type is taken as
\* as_homogeneous_ob and as as_heterogeneous_ob
AnyAllValues ==
    {PyLongOb(0), PyLongOb(0 - 1), BigLong, PyFloatOb(0), PyFloatOb(1),
     PyBoolOb, PyFalse, PyStrOb, StrA, PyNone}

AnyAllNext ==
    \/ \E ob \in AnyAllValues : AppendWithin_(MaxLen + 1, ob)
    \/ \E any \in BOOLEAN, homogeneous \in BOOLEAN : AnyAll_(any, homogeneous)

AnyAllSpec == Detailed /\ [][AnyAllNext]_vars

(***************************************************************************)
(* copy(self): new_jlist(self.tag, begin, end) builds the vector of the    *)
(* new list from the range, in storage of its own, and takes a reference   *)
(* for each entry of a Boxed list.                                         *)
(***************************************************************************)
\* a copy whose vector is the storage of the vector of self
copy_aliased(s, fails) ==
    LET out == new_jlist(s.tag, s.entries)
    IN  IF fails THEN [st |-> s, err |-> "MemoryError", out |-> NoPeer]
        ELSE [st |-> [s EXCEPT !.ub = @ \/ out.ub, !.acqs = out.acqs], err |-> "none",
              out |-> [made |-> TRUE, shared |-> TRUE, tag |-> out.tag,
                       entries |-> out.entries, refs |-> out.refs]]

\* fails: PyObject_GC_New returns NULL
copy(s, fails) ==
    LET out == new_jlist(s.tag, s.entries)
    IN  IF fails THEN [st |-> s, err |-> "MemoryError", out |-> NoPeer]
        ELSE [st |-> [s EXCEPT !.ub = @ \/ out.ub, !.acqs = out.acqs], err |-> "none",
              out |-> [made |-> TRUE, shared |-> FALSE, tag |-> out.tag,
                       entries |-> out.entries, refs |-> out.refs]]

\* the list copied becomes the second list, in place of an earlier one
Copy_(fails) ==
    /\ Near
    /\ \E r \in {copy(Cur, fails)} :
         /\ StoreList(r.st, [DidR("copy", r.err, 0, PyNone, NoList, r.st, PyNone,
                                  [tag |-> r.out.tag, entries |-> r.out.entries])
                               EXCEPT !.oes = r.out.entries])
         /\ peer' = IF r.err = "none" THEN r.out ELSE peer
    /\ iter' = iter
    /\ scan' = scan

\* the entries of the second list
PeerEntries == IF peer.shared THEN entries ELSE peer.entries

\* the caller turns to the second list: the operations that follow are
\* applied to it, and the list they were applied to is the second one
Turn_ ==
    /\ Near
    /\ peer.made
    /\ \E s \in {[Cur EXCEPT !.tag = peer.tag, !.entries = PeerEntries, !.refs = peer.refs]} :
         StoreList(s, Did("turn", "none", 0, PyNone, NoList, s))
    /\ peer' = [peer EXCEPT !.tag = tag, !.entries = entries, !.refs = refs]
    /\ iter' = iter
    /\ scan' = scan

\* appends, assignments, deletions and clear on a list and on its copy
CopyValues == {PyLongOb(1), PyStrOb}

CopyNext ==
    \/ \E ob \in CopyValues : Append_(ob)
    \/ \E index \in Indices, ob \in CopyValues : SetItem_(index, ob)
    \/ \E index \in Indices : DelItem_(index)
    \/ Clear_
    \/ \E fails \in BOOLEAN : Copy_(fails)
    \/ Turn_

CopySpec == Detailed /\ [][CopyNext]_vars

(***************************************************************************)
(* iter(self) and the next of the cursor it returns.                       *)
(***************************************************************************)
\* methods::iter; fails: PyObject_GC_New returns NULL
iter_method(it, fails) ==
    IF fails THEN [it |-> it, err |-> "MemoryError"]
    ELSE [it |-> [made |-> TRUE, ix |-> 0, list |-> TRUE], err |-> "none"]

Iter_(fails) ==
    /\ Near
    /\ \E r \in {iter_method(iter, fails)} :
         /\ StoreList(Cur, Did("iter", r.err, 0, PyNone, NoList, Cur))
         /\ iter' = r.it
    /\ peer' = peer
    /\ scan' = scan

\* a next that keeps the list when it finds ix at or beyond the size
iter_next_keep(s, it, f) ==
    LET r == getitem(s, it.ix)
        fails == s.tag # "as_ob" /\ f = 1
    IN  IF ~it.list THEN [it |-> it, err |-> "StopIteration", ret |-> PyNone]
        ELSE IF it.ix >= Len(s.entries)
        THEN [it |-> it, err |-> "StopIteration", ret |-> PyNone]
        ELSE [it |-> [it EXCEPT !.ix = @ + 1],
              err |-> IF fails THEN "MemoryError" ELSE r.err,
              ret |-> IF fails THEN PyNone ELSE r.ret]

\* iterobject::next.  A null return with no exception set ends the
\* iteration (StopIteration); a primitive entry is boxed into a new object,
\* the one allocation of the call, which fails when f = 1
iter_next(s, it, f) ==
    LET r == getitem(s, it.ix)
        fails == s.tag # "as_ob" /\ f = 1
    IN  IF ~it.list THEN [it |-> it, err |-> "StopIteration", ret |-> PyNone]
        ELSE IF it.ix >= Len(s.entries)
        THEN [it |-> [it EXCEPT !.list = FALSE], err |-> "StopIteration", ret |-> PyNone]
        ELSE [it |-> [it EXCEPT !.ix = @ + 1],
              err |-> IF fails THEN "MemoryError" ELSE r.err,
              ret |-> IF fails THEN PyNone ELSE r.ret]

\* ix: the position of the cursor before the call
Next_ ==
    /\ Near
    /\ iter.made
    /\ \E f \in 0..1 :
         \E r \in {iter_next(Cur, iter, f)} :
           /\ StoreList(Cur, DidR("next", r.err, iter.ix, PyNone, NoList, Cur, r.ret, NoList))
           /\ iter' = r.it
    /\ peer' = peer
    /\ scan' = scan

\* appends, deletions, clear and get while a cursor goes over the list
IterValues == {PyLongOb(1), PyFloatOb(1), PyStrOb}

IterNext ==
    \/ \E ob \in IterValues : Append_(ob)
    \/ \E index \in Indices : DelItem_(index)
    \/ Clear_
    \/ \E index \in Indices : GetItem_(index)
    \/ \E fails \in BOOLEAN : Iter_(fails)
    \/ Next_

IterSpec == Detailed /\ [][IterNext]_vars

(***************************************************************************)
(* count(self, value): the number of entries equal to value.  A list of    *)
(* ints or floats compares raw values when value unboxes as its type, and  *)
(* boxes every entry for a generic comparison when it does not.            *)
(***************************************************************************)
\* the conversion of a double, in halves, to std::int64_t: towards zero
to_int64(h) == IF h >= 0 THEN h \div 2 ELSE 0 - ((0 - h) \div 2)

\* f: the allocation that fails (0: none).  boxing_count allocates one
\* object for each entry and PyLong_FromSsize_t one for the result
count(s, value, f) ==
    LET n == Len(s.entries)
        T == RepOf(s.tag)
        m == maybe_unbox(T, value)
        boxing == s.tag \in PrimTags /\ ~m.some
        \* std::int64_t rhs = *maybe_unboxed, in both primitive cases
        rhs == IF T = "dbl" THEN to_int64(m.v) ELSE m.v
        wide == T = "dbl" /\ m.some /\ (rhs > INT64_MAX \/ rhs < INT64_MIN)
        eq(e) == IF s.tag = "as_ob" THEN e.rep = "ob" /\ RichEq(EntryOb(e), value)
                 ELSE IF boxing THEN RichEq(box_value(T, entry_value(e, T)), value)
                 ELSE IF T = "int" THEN entry_value(e, T) = rhs
                 ELSE entry_value(e, T) = to_double(rhs)
        hits == Cardinality({i \in DOMAIN s.entries : eq(s.entries[i])})
        misread == s.tag = "as_ob" /\ \E i \in DOMAIN s.entries : s.entries[i].rep # "ob"
        made == IF boxing THEN n ELSE 0
        fl == f - s.allocs
        raised(k) == [st |-> [s EXCEPT !.allocs = @ + k], err |-> "MemoryError",
                      ret |-> PyNone]
    IN  IF n = 0
        THEN (IF fl = 1 THEN raised(1)
              ELSE [st |-> [s EXCEPT !.allocs = @ + 1], err |-> "none", ret |-> PyLongOb(0)])
        ELSE IF boxing /\ fl \in 1..n THEN raised(fl)
        ELSE IF fl = made + 1 THEN raised(made + 1)
        ELSE [st |-> [s EXCEPT !.allocs = @ + made + 1, !.ub = @ \/ misread \/ wide],
              err |-> "none", ret |-> PyLongOb(hits)]

Count_(value) ==
    /\ Near
    /\ \E r0 \in {count(Cur, value, 0)} :
         \E f \in Failures(r0) :
           \E r \in {IF f = 0 THEN r0 ELSE count(Cur, value, f)} :
             Commit(r.st, DidR("count", r.err, 0, value, NoList, r.st, r.ret, NoList))

\* appends and counts of 1, 1.0, 1.5 and a str
CountValues == {PyLongOb(1), PyFloatOb(2), PyFloatOb(3), PyStrOb}

CountNext ==
    \/ \E ob \in CountValues : Append_(ob)
    \/ \E value \in CountValues : Count_(value)

CountSpec == Detailed /\ [][CountNext]_vars

(***************************************************************************)
(* The slice operations, on lists that an assignment of the list to a      *)
(* slice of itself may make twice as long as the appends do.               *)
(***************************************************************************)
SliceValues == {PyLongOb(0), PyLongOb(1), PyFloatOb(1), PyStrOb}

\* slices with a step other than 1: forwards from every start, and backwards
\* from every start to the front of the list
SteppedSlices ==
    LET n == Len(entries)
    IN  {<<a, n, st>> : a \in 0..n, st \in {2, 3}}
          \cup {<<a, 0 - n - 1, st>> : a \in 0..n, st \in {0 - 1, 0 - 2}}

SliceNext ==
    \/ \E ob \in SliceValues : Append_(ob)
    \/ \E sl \in Slices : SetSliceWithin_(2 * MaxLen, sl, NoList, TRUE)
    \/ \E sl \in Slices, other \in OtherLists : SetSlice_(sl, other, FALSE)
    \/ \E sl \in Slices, items \in ArgSeqs : SetSliceSeq_(sl, items)
    \/ \E sl \in Slices : DelSlice_(sl)

SliceSpec == Detailed /\ [][SliceNext]_vars

\* the slices of a list alone: appends, the assignment of the list to a slice
\* of itself, and the deletion of a slice of any step
SpliceValues == {PyLongOb(0), PyLongOb(1), PyStrOb}

SpliceNext ==
    \/ \E ob \in SpliceValues : Append_(ob)
    \/ \E sl \in Slices : SetSliceWithin_(2 * MaxLen, sl, NoList, TRUE)
    \/ \E sl \in Slices \cup SteppedSlices : DelSlice_(sl)

SpliceSpec == Detailed /\ [][SpliceNext]_vars

\* the objects getitem returns for the indices of list c, in order
Items(c) == [i \in 1..Len(c.entries) |-> getitem(c, i - 1).ret]

(***************************************************************************)
(* The claims.                                                             *)
(***************************************************************************)
\* the list as getitem reads it
Container == [tag |-> tag, entries |-> entries]

\* C1: a Boxed list whose references equal its entries still has as many
\* references as entries after an append, set, delete, extend, clear or sort.
C1_ReferencesEqualEntries ==
    [][(/\ tag = "as_ob"
        /\ \A i \in DOMAIN entries : entries[i].rep = "ob"
        /\ refs = Len(entries)
        /\ last'.op \in {"append", "set", "delete", "extend", "extend_fast",
                         "extend_iter", "clear", "sort"})
       => refs' = Len(entries')]_vars

\* C1 witness: the extend of a Boxed list by an Int64 list has returned and
\* the list holds more references than entries
C1_ExtendLeftReferences ==
    /\ last.op = "extend" /\ last.err = "none"
    /\ last.ptag = "as_ob" /\ last.otag = "as_int"
    /\ tag = "as_ob" /\ refs > Len(entries)

\* C2: when the boxing of an Int64 or Float64 list fails, the entries are
\* the primitives they were, and the references acquired for the entries
\* before the failing one are the ones released, each once.
C2_FailedBoxingRestores ==
    [][(tag \in PrimTags /\ last'.op = "box" /\ last'.err = "MemoryError")
       => (entries' = entries /\ last'.rels = last'.acqs /\ ~ub')]_vars

\* C2 witness: a boxing has failed after it acquired a reference, and has
\* released none
C2_BoxedEntryKept ==
    /\ last.op = "box" /\ last.err = "MemoryError"
    /\ last.acqs # <<>> /\ last.rels = <<>>

\* every entry is held as the tag says (the zero bytes of a value-initialised
\* entry are the integer 0 and the double 0.0)
EntriesMatchTag ==
    \A i \in DOMAIN entries :
        entries[i].rep \in (IF tag = "as_ob" THEN {"ob"} ELSE {RepOf(tag), "zero"})

\* C3: a successful operation on a list whose entries are all held as its tag
\* says leaves a list whose entries are all held as its tag says.
C3_EntriesStayAsTagged ==
    [][(EntriesMatchTag /\ last'.err = "none") => EntriesMatchTag']_vars

\* C3 witness: an operation has succeeded and the Boxed list holds a raw
\* integer beside a pointer
C3_RawIntegerInBoxedList ==
    /\ tag = "as_ob" /\ last.err = "none"
    /\ \E i, j \in DOMAIN entries : entries[i].rep = "int" /\ entries[j].rep = "ob"

\* C4: the tag stays, or moves from Unset to any tag, or from Int64 or
\* Float64 to Boxed; it makes no other move.
C4_TagOnlyMovesForward ==
    [][tag' = tag \/ tag = "unset" \/ (tag \in PrimTags /\ tag' = "as_ob")]_vars

\* C5: unless undefined behaviour has occurred, a list whose tag is Unset
\* has no entries, and so has the list an operation returns.
C5_UnsetIsEmpty ==
    ub \/ ((tag = "unset" => Len(entries) = 0) /\ (last.rtag = "unset" => last.rlen = 0))

\* C5 witness: an operation on an Unset list has raised IndexError and left
\* it Unset, with no entries
C5_UnsetAfterIndexError ==
    tag = "unset" /\ entries = <<>> /\ last.err = "IndexError" /\ ~ub

\* C6: after a successful append, insert or set the tag is the one the
\* previous tag and the exact type of the stored object determine.
C6_StoreDeterminesTag ==
    [][(last'.op \in {"append", "insert", "set"} /\ last'.err = "none")
       => LET ob == last'.val
              int == ob.k = "long" /\ ob.v >= INT64_MIN /\ ob.v <= INT64_MAX
              float == ob.k = "float"
          IN  tag' = CASE tag = "unset" -> (IF int THEN "as_int"
                                            ELSE IF float THEN "as_double" ELSE "as_ob")
                       [] tag = "as_int" -> (IF int THEN "as_int" ELSE "as_ob")
                       [] tag = "as_double" -> (IF float THEN "as_double" ELSE "as_ob")
                       [] tag = "as_ob" -> "as_ob"]_vars

\* C6 witness: a bool appended to an Int64 list has made it Boxed
C6_BoolBoxesIntList ==
    /\ last.op = "append" /\ last.err = "none"
    /\ last.ptag = "as_int" /\ last.val = PyBoolOb /\ tag = "as_ob"

C8_OutOfRangeIntegerBoxes ==
    [][(/\ tag = "as_int"
        /\ last'.op \in {"append", "insert", "set"} /\ last'.err = "none"
        /\ last'.val.k = "long"
        /\ (last'.val.v > INT64_MAX \/ last'.val.v < INT64_MIN))
       => LET pos == last'.ix
              now(i) == IF last'.op = "insert" /\ i >= pos THEN i + 1 ELSE i
          IN  /\ tag' = "as_ob"
              /\ getitem(Container', pos) = [err |-> "none", ret |-> last'.val]
              /\ \A i \in 0..(Len(entries) - 1) :
                   \/ last'.op = "set" /\ i = pos
                   \/ getitem(Container', now(i))
                        = [err |-> "none", ret |-> PyLongOb(entries[i + 1].v)]]_vars

\* C8 witness: an integer above the range was inserted before an entry
C8_BigIntegerInserted ==
    /\ last.op = "insert" /\ last.err = "none" /\ last.ptag = "as_int"
    /\ last.val = BigLong /\ last.ix = 0 /\ Len(entries) = 2

\* C9: boxing a Boxed or Unset list changes nothing and touches no
\* reference; after a successful boxing of an Int64 or Float64 list every
\* index reads an object equal, as a number, to the primitive it held.
C9_BoxingKeepsValues ==
    [][(last'.op = "box" /\ last'.err = "none")
       => /\ tag \notin PrimTags
             => /\ tag' = tag /\ entries' = entries /\ refs' = refs
                /\ last'.acqs = <<>> /\ last'.rels = <<>>
          /\ tag \in PrimTags
             => /\ Len(entries') = Len(entries)
                /\ \A i \in 0..(Len(entries) - 1) :
                     LET got == getitem(Container', i)
                     IN  /\ got.err = "none"
                         /\ Numeric(got.ret)
                         /\ Halves(got.ret) = (IF tag = "as_int" THEN 2 * entries[i + 1].v
                                               ELSE entries[i + 1].v)]_vars

\* C9 witness: a Float64 list of two entries has been boxed
C9_FloatListBoxed ==
    /\ last.op = "box" /\ last.err = "none"
    /\ last.ptag = "as_double" /\ last.plen = 2 /\ tag = "as_ob"

\* C10: after a successful extend of a list by a jlist, the length is the
\* old length plus the length of the other list.
C10_ExtendAddsLengths ==
    [][(last'.op = "extend" /\ last'.err = "none")
       => Len(entries') = Len(entries) + last'.olen]_vars

\* C10 witness: the extend of a list by a jlist of one entry has succeeded
\* and the list is as long as it was
C10_ExtendKeptLength ==
    /\ last.op = "extend" /\ last.err = "none"
    /\ last.olen = 1 /\ Len(entries) = last.plen

\* C11: a successful extend by a Boxed jlist of a Boxed or Unset list acquires
\* exactly one reference for each appended value; a successful extend by a
\* primitive jlist of a list with the same tag or an Unset list acquires no
\* reference and appends raw primitives.
C11_ExtendAcquiresPerValue ==
    [][(last'.op = "extend" /\ last'.err = "none" /\ last'.olen > 0)
       => LET appended == SubSeq(entries', Len(entries) + 1, Len(entries'))
          IN  /\ (last'.otag = "as_ob" /\ tag \in {"as_ob", "unset"})
                 => /\ Len(appended) = last'.olen
                    /\ last'.acqs = [i \in 1..last'.olen |-> EntryOb(appended[i])]
              /\ (last'.otag \in PrimTags /\ tag \in {last'.otag, "unset"})
                 => /\ last'.acqs = <<>>
                    /\ refs' = refs
                    /\ \A i \in DOMAIN appended : appended[i].rep = RepOf(last'.otag)]_vars

\* C11 witness: a Boxed jlist of one entry was appended to an Unset list and
\* no reference was acquired
C11_UnsetTookBoxedUncounted ==
    /\ last.op = "extend" /\ last.err = "none"
    /\ last.ptag = "unset" /\ last.otag = "as_ob" /\ last.olen = 1
    /\ tag = "as_ob" /\ Len(entries) = 1 /\ last.acqs = <<>>

\* C12: when an extend from a list, a tuple or an iterable fails, nothing is
\* released but references this call acquired for the elements it appended.
\* A placement fails only while the list is Int64 or Float64, when the elements
\* already appended are raw primitives that hold no reference: the failed
\* extend releases nothing, and applies no release to bytes that are not a
\* reference.
C12_FailedExtendReleasesOwn ==
    [][(last'.op \in {"extend_fast", "extend_iter"} /\ last'.err = "MemoryError")
       => (last'.rels = <<>> /\ ~ub')]_vars

\* C12 witness: an extend from a list failed on its second element before
\* any object was allocated, and its unwinding released the raw first entry
C12_UnwindReleasedRawEntry ==
    /\ last.op = "extend_fast" /\ last.err = "MemoryError"
    /\ last.plen = 0 /\ last.olen = 2 /\ last.acqs = <<>>
    /\ ub /\ Len(entries) = 2 /\ entries[1].rep = "int"

C14_SearchReadsAsTagged ==
    scan.op \in SearchOps => ~scan.raw

\* C14 witness: a search that began on a primitive list has read an entry as
\* a primitive after the list became Boxed
C14_BoxedEntryReadRaw ==
    scan.op \in SearchOps /\ scan.raw /\ tag = "as_ob" /\ ub

\* C15: while two Boxed lists are compared, no read leaves the vector of
\* either list, whatever the comparisons called back have removed from them.
C15_CompareReadsWithinLength ==
    [][(scan.op = "eq" /\ scan.phase = "check" /\ scan.mode = "ob" /\ scan.omode = "ob")
       => ~scan'.oob]_vars

\* C15 witness: in a comparison of two Boxed lists the other list was shrunk
\* to the position of the loop, self is as long as it was, and the next
\* iteration is about to begin
C15_OtherShrankToPosition ==
    /\ scan.op = "eq" /\ scan.phase = "check"
    /\ scan.mode = "ob" /\ scan.omode = "ob"
    /\ Len(entries) = scan.stop /\ tag = "as_ob" /\ ~ub
    /\ scan.ix = Len(scan.other) /\ scan.ix < Len(entries)

\* C16: for a list whose entries are held as its tag says and a unit-step
\* slice [i:j] with 0 <= i <= j <= len, a successful c[i:j] = c leaves the
\* items old[0:i], then all of old, then old[j:len].
C16_SelfAssignKeepsCopy ==
    [][(/\ last'.op = "set_self" /\ last'.err = "none"
        /\ EntriesMatchTag
        /\ last'.sl[3] = 1
        /\ 0 <= last'.sl[1] /\ last'.sl[1] <= last'.sl[2]
        /\ last'.sl[2] <= Len(entries))
       => LET old == Items(Container)
              i == last'.sl[1]
              j == last'.sl[2]
          IN  Items(Container') = SubSeq(old, 1, i) \o old \o SubSeq(old, j + 1, Len(old))]_vars

\* C16 witness: [0, 1] was assigned to its own slice [1:1] and is twice as long
C16_SelfInsertedInMiddle ==
    /\ last.op = "set_self" /\ last.err = "none" /\ last.sl = <<1, 1, 1>>
    /\ last.oes = <<IntEntry(0), IntEntry(1)>>
    /\ Len(entries) = 4

\* the items assigned by the last slice assignment: those of the jlist, or
\* the objects of the sequence
Assigned(rec) ==
    IF rec.op = "set_slice_seq" THEN rec.oes
    ELSE Items([tag |-> rec.otag, entries |-> rec.oes])

\* C17: for a list whose entries are held as its tag says and a unit-step
\* slice [i:j] with 0 <= i <= j <= len, a successful c[i:j] = s with s a jlist
\* or a sequence leaves the items old[0:i], then those of s, then old[j:len]
\* (and so len - (j - i) + len(s) of them).
C17_SliceAssignSplices ==
    [][(/\ last'.op \in {"set_slice", "set_slice_seq"} /\ last'.err = "none"
        /\ EntriesMatchTag
        /\ last'.sl[3] = 1
        /\ 0 <= last'.sl[1] /\ last'.sl[1] <= last'.sl[2]
        /\ last'.sl[2] <= Len(entries))
       => LET old == Items(Container)
              i == last'.sl[1]
              j == last'.sl[2]
          IN  /\ Items(Container')
                   = SubSeq(old, 1, i) \o Assigned(last') \o SubSeq(old, j + 1, Len(old))
              /\ Len(entries') = Len(entries) - (j - i) + Len(last'.oes)]_vars

\* C17 witness: the empty sequence was assigned to the slice [1:2] of a
\* Boxed list of the two entries 0 and 'a', and the entry released and
\* removed is 0, the one before the slice
C17_EntryBeforeSliceRemoved ==
    /\ last.op = "set_slice_seq" /\ last.err = "none" /\ last.sl = <<1, 2, 1>>
    /\ last.oes = <<>> /\ last.ptag = "as_ob" /\ last.plen = 2
    /\ last.rels = <<PyLongOb(0)>>
    /\ entries = <<ObEntry(PyStrOb)>> /\ ~ub

\* C18: for a list whose entries are held as its tag says, an assignment to a
\* slice with a step other than 1 that succeeds has a replacement with as
\* many items as the slice selects, item start + k * step is then the k-th
\* item of the replacement and every other item is as it was; when the
\* numbers differ (and no allocation failed) it raises ValueError and the
\* items are as they were.
C18_SteppedAssignReplaces ==
    [][(/\ last'.op \in {"set_slice", "set_slice_seq", "set_self"}
        /\ EntriesMatchTag
        /\ last'.sl[3] # 1)
       => LET old == Items(Container)
              new == Items(Container')
              a == slice_of(Container, last'.sl)
              step == last'.sl[3]
              repl == Assigned(last')
              picked == {a.start + k * step + 1 : k \in 0..(a.len - 1)}
          IN  /\ last'.err = "none"
                 => /\ Len(repl) = a.len
                    /\ Len(new) = Len(old)
                    /\ \A k \in 0..(a.len - 1) : new[a.start + k * step + 1] = repl[k + 1]
                    /\ \A p \in DOMAIN old : p \notin picked => new[p] = old[p]
              /\ (Len(repl) # a.len /\ last'.err # "MemoryError")
                 => /\ last'.err = "ValueError"
                    /\ new = old]_vars

\* C18 witness: a list holding an integer was assigned to every second entry
\* of a Boxed list, and the Boxed list holds the raw integer
C18_SteppedAssignStoredRaw ==
    /\ last.op = "set_slice_seq" /\ last.err = "none" /\ last.sl[3] = 2
    /\ last.ptag = "as_ob" /\ last.oes = <<PyLongOb(1)>>
    /\ tag = "as_ob" /\ Len(entries) = 1 /\ entries[1].rep = "int"

\* the number of times x occurs in seq
Count(seq, x) == Cardinality({i \in DOMAIN seq : seq[i] = x})

\* seq without the positions in picked, in the order of seq
Surviving(seq, picked) ==
    LET kept == {p \in DOMAIN seq : p \notin picked}
    IN  [r \in 1..Cardinality(kept) |->
           seq[CHOOSE p \in kept : Cardinality({q \in kept : q < p}) = r - 1]]

\* C19: for a list whose entries are held as its tag says, the deletion of a
\* slice with a step other than 1 leaves the items the slice does not select,
\* in their order; no reference is acquired, and in a Boxed list the
\* references released are those of the removed entries, one for each.
C19_SteppedDeleteKeepsRest ==
    [][(/\ last'.op = "del_slice"
        /\ EntriesMatchTag
        /\ last'.sl[3] # 1)
       => LET old == Items(Container)
              a == PySlice_AdjustIndices(Len(entries), last'.sl[1], last'.sl[2], last'.sl[3])
              picked == {a.start + k * last'.sl[3] + 1 : k \in 0..(a.len - 1)}
              removed == [p \in picked |-> old[p]]
          IN  /\ last'.err = "none" /\ ~ub'
              /\ tag' = tag
              /\ Items(Container') = Surviving(old, picked)
              /\ EntriesMatchTag'
              /\ last'.acqs = <<>>
              /\ tag # "as_ob" => last'.rels = <<>>
              /\ tag = "as_ob"
                 => /\ Len(last'.rels) = Cardinality(picked)
                    /\ \A p \in picked :
                         Count(last'.rels, old[p])
                           = Cardinality({q \in picked : old[q] = old[p]})]_vars

\* C19 witness: every second entry of a Boxed list of four entries was
\* deleted, backwards from the last
C19_EverySecondDeletedBackwards ==
    /\ last.op = "del_slice" /\ last.sl[3] = 0 - 2 /\ last.sl[1] = 4
    /\ last.ptag = "as_ob" /\ last.plen = 4
    /\ Len(entries) = 2 /\ Len(last.rels) = 2

\* index is an index of the list, counted from the front or from the back
InRange(index) == 0 - Len(entries) <= index /\ index < Len(entries)

\* the position (from 1) of the entry that an index of the list names
Named(index) == (IF index < 0 THEN index + Len(entries) ELSE index) + 1

\* the object that the entry at position p stands for
Stands(p) ==
    IF tag = "as_ob" THEN EntryOb(entries[p])
    ELSE IF tag = "as_int" THEN PyLongOb(entries[p].v)
    ELSE PyFloatOb(entries[p].v)

\* an operation that reports an index out of range and changes nothing
Rejected ==
    /\ last'.err = "IndexError"
    /\ tag' = tag /\ entries' = entries /\ refs' = refs /\ ~ub'
    /\ last'.acqs = <<>> /\ last'.rels = <<>>

\* C20: on a list whose entries are held as its tag says, get(i), set(i, v)
\* and delete(i) with -len <= i < len act on the entry at i, or at i + len
\* when i is negative: get returns the object it stands for, set stores v
\* there and leaves the other items, delete removes it and nothing else.
\* With any other i they report IndexError and leave the tag, the entries and
\* the references as they were.
C20_IndexNamesEntry ==
    [][EntriesMatchTag
       => /\ last'.op = "get"
             => LET index == last'.sl[1]
                    p == Named(index)
                IN  IF InRange(index)
                    THEN /\ last'.err # "IndexError"
                         /\ last'.err = "none" => last'.ret = Stands(p)
                         /\ tag' = tag /\ entries' = entries
                    ELSE Rejected
          /\ last'.op = "delete"
             => \A index \in ItemIndices :
                  DelItem_(index)
                    => LET p == Named(index)
                       IN  IF InRange(index)
                           THEN /\ last'.err = "none"
                                /\ tag' = tag
                                /\ entries' = RemoveAt(entries, p)
                                /\ last'.rels
                                     = IF tag = "as_ob" THEN <<Stands(p)>> ELSE <<>>
                           ELSE Rejected
          /\ last'.op = "set"
             => \A index \in ItemIndices :
                  SetItem_(index, last'.val)
                    => LET p == Named(index)
                       IN  IF InRange(index)
                           THEN /\ last'.err # "IndexError"
                                /\ last'.err = "none"
                                   => /\ Len(entries') = Len(entries)
                                      /\ Items(Container')[p] = last'.val
                                      /\ \A q \in DOMAIN entries :
                                           q # p => Items(Container')[q] = Stands(q)
                           ELSE Rejected]_vars

\* C20 witness: get(-3) on a list of two entries was refused
C20_IndexBelowRefused ==
    /\ last.op = "get" /\ last.err = "IndexError" /\ last.sl[1] = 0 - 3
    /\ Len(entries) = 2

\* C21: on a list whose entries are held as its tag says, a pop of the last
\* entry, or of an entry named by a negative index -len <= i < 0, is not
\* refused; when it succeeds it returns the object of the entry at i + len,
\* and the list is left one shorter, the other entries in their order.
C21_PopFromTheBack ==
    [][(/\ last'.op = "pop"
        /\ EntriesMatchTag
        /\ InRange(last'.ix)
        /\ last'.ix < 0 \/ last'.ix = Len(entries) - 1)
       => LET p == Named(last'.ix)
          IN  /\ last'.err # "IndexError"
              /\ last'.err = "none"
                 => /\ last'.ret = Stands(p)
                    /\ tag' = tag
                    /\ entries' = RemoveAt(entries, p)]_vars

\* C21 witness: pop(-1) on a list of two entries was refused and both
\* entries are still there
C21_PopLastByMinusOneRefused ==
    /\ last.op = "pop" /\ last.ix = 0 - 1 /\ last.err = "IndexError"
    /\ last.plen = 2 /\ Len(entries) = 2

\* n copies of the sequence es, one after the other
RECURSIVE Copies(_, _)
Copies(es, n) == IF n <= 0 THEN <<>> ELSE es \o Copies(es, n - 1)

\* C22: repeat(n) on a list whose entries are held as its tag says returns a
\* list of the same tag and leaves the tag, the entries and the references of
\* the source as they were.  The list returned holds n copies of the entries
\* in order, none when n <= 0; for a Boxed source one reference is acquired
\* for each entry of each copy, and none is released; otherwise none is
\* acquired.
C22_RepeatCopiesInOrder ==
    [][(last'.op = "repeat" /\ EntriesMatchTag)
       => LET n == last'.ix
          IN  /\ last'.err = "none" /\ ~ub'
              /\ tag' = tag /\ entries' = entries /\ refs' = refs
              /\ last'.rtag = tag
              /\ last'.oes = Copies(entries, n)
              /\ last'.rlen = Len(last'.oes)
              /\ n <= 0 => last'.oes = <<>>
              /\ last'.rels = <<>>
              /\ tag # "as_ob" => last'.acqs = <<>>
              /\ tag = "as_ob"
                 => /\ Len(last'.acqs) = Len(last'.oes)
                    /\ \A i \in DOMAIN entries :
                         Count(last'.acqs, EntryOb(entries[i]))
                           = Count(last'.oes, entries[i])]_vars

\* C22 witness: a Boxed list of two different entries was repeated twice,
\* into a list of four entries with four references acquired
C22_BoxedRepeatedTwice ==
    /\ last.op = "repeat" /\ last.ix = 2
    /\ tag = "as_ob" /\ Len(entries) = 2 /\ entries[1] # entries[2]
    /\ last.rtag = "as_ob" /\ last.rlen = 4 /\ Len(last.acqs) = 4

\* the list a comparison was made with
Other == [tag |-> last.otag, entries |-> last.oes]

\* two sequences of objects of one length, equal object by object
GenericEqual(xs, ys) ==
    /\ Len(xs) = Len(ys)
    /\ \A i \in DOMAIN xs : RichEq(xs[i], ys[i])

\* C23: a comparison of two lists whose entries are held as their tags say,
\* when it returns, returns True for == exactly when the lists have one
\* length and their items are equal one by one, and for != exactly when not.
C23_EqualIffItemsEqual ==
    (/\ scan.op = "eq" /\ scan.phase = "idle"
     /\ last.op \in {"eq", "ne"}
     /\ scan.result \in {0, 1}
     /\ EntriesMatchTag)
    => ((scan.result = 1)
          <=> (GenericEqual(Items(Container), Items(Other)) <=> last.op = "eq"))

\* C23 witness: the Int64 list of the largest integer compared equal to the
\* Float64 list of the double it converts to, which is another number
C23_IntEqualToRoundedDouble ==
    /\ scan.op = "eq" /\ scan.phase = "idle" /\ last.op = "eq" /\ scan.result = 1
    /\ tag = "as_int" /\ last.otag = "as_double"
    /\ Items(Container) = <<PyLongOb(INT64_MAX)>>
    /\ Items(Other) = <<PyFloatOb(to_double(INT64_MAX))>>
    /\ ~RichEq(PyLongOb(INT64_MAX), PyFloatOb(to_double(INT64_MAX)))

\* C24: on a list whose entries are held as its tag says, no step of a
\* comparison in which the code called back changes neither list changes the
\* tag, the entries or the references of the list, or the entries of the
\* list it is compared with; the loop holds at most one boxed entry, and none
\* when it examines the next entry or returns.
C24_CompareLeavesOperands ==
    [][(scan'.op = "eq" /\ last'.op \in {"eq", "ne"} /\ EntriesMatchTag)
       => /\ tag' = tag /\ entries' = entries /\ refs' = refs /\ ub' = ub
          /\ (scan.phase # "idle" /\ scan'.phase # "idle") => scan'.other = scan.other
          /\ scan'.held \in {0, 1}
          /\ scan'.phase \in {"idle", "check"} => scan'.held = 0]_vars

\* C24 witness: an Int64 list of two entries was compared with a Boxed list;
\* both entries were boxed and compared, and the comparison returned True
\* with no boxed entry held
C24_BoxedTwiceAndReleased ==
    /\ scan.op = "eq" /\ scan.phase = "idle" /\ last.op = "eq"
    /\ tag = "as_int" /\ last.otag = "as_ob" /\ Len(entries) = 2
    /\ scan.result = 1 /\ scan.held = 0

\* a bound of a search in a list of n entries: increased by n when negative,
\* then brought into 0..n
Clamped(x, n) ==
    LET y == IF x < 0 THEN x + n ELSE x
    IN  IF y < 0 THEN 0 ELSE IF y > n THEN n ELSE y

\* C25: on a list whose entries are held as its tag says, index(value, start,
\* stop), start being 0 and stop the length when not given, returns the least
\* ix with start <= ix < stop, both clamped, whose item equals value, and
\* raises ValueError when there is none; the list is left as it was.
C25_IndexFindsFirstInRange ==
    [][(last'.op = "index" /\ EntriesMatchTag /\ last'.err # "MemoryError")
       => LET n == Len(entries)
              a == IF last'.sl[3] >= 1 THEN Clamped(last'.sl[1], n) ELSE 0
              b == IF last'.sl[3] >= 2 THEN Clamped(last'.sl[2], n) ELSE n
              hits == {ix \in a..(b - 1) : RichEq(Items(Container)[ix + 1], last'.val)}
          IN  /\ hits # {} => last'.err = "none" /\ last'.ret = PyLongOb(Least(hits))
              /\ hits = {} => last'.err = "ValueError"
              /\ tag' = tag /\ entries' = entries /\ refs' = refs /\ ~ub']_vars

\* C25 witness: index(value, 0, -1) on a list of two entries whose first
\* equals value returned NULL with no exception set
C25_StopMinusOneFails ==
    /\ last.op = "index" /\ last.err = "SystemError" /\ last.sl = <<0, 0 - 1, 2>>
    /\ Len(entries) = 2 /\ EntriesMatchTag
    /\ RichEq(Items(Container)[1], last.val)

(***************************************************************************)
(* Sorting.                                                                *)
(***************************************************************************)
\* the one-to-one arrangements of the indices 1..n
Perms(n) == {p \in [1..n -> 1..n] : \A i, j \in 1..n : p[i] = p[j] => i = j}

\* the value an entry is ordered by in a sort with a key (keyed = 1) or
\* without one
Ordered(e, keyed) == IF keyed = 1 THEN KeyNeg(EntryOb(e)) ELSE EntryOb(e)

\* C26: after a successful sort of a Boxed list, with a key or without one,
\* the list is still Boxed and its entries are the previous entries
\* rearranged: no entry's (key) value is less than that of an entry before
\* it, and two entries whose (key) values are equal stand in their previous
\* order.
C26_BoxedSortStable ==
    [][(last'.op = "sort" /\ last'.err = "none" /\ tag = "as_ob")
       => /\ ~ub' /\ tag' = "as_ob"
          /\ Len(entries') = Len(entries)
          /\ \E p \in Perms(Len(entries)) :
               /\ \A i \in DOMAIN entries : entries'[i] = entries[p[i]]
               /\ \A i, j \in DOMAIN entries :
                    i < j => LET ki == Ordered(entries'[i], last'.ix)
                                 kj == Ordered(entries'[j], last'.ix)
                             IN  /\ RichLt(kj, ki) = "ge"
                                 /\ RichLt(ki, kj) = "ge" => p[i] < p[j]]_vars

\* a sort by key has put 2 first and left the int 1 before the float 1.0
C26_EqualKeysKeepOrder ==
    /\ last.op = "sort" /\ last.err = "none" /\ last.ix = 1
    /\ tag = "as_ob" /\ last.ptag = "as_ob"
    /\ Len(entries) = 3
    /\ \A i \in DOMAIN entries :
         EntryOb(entries[i]) = <<PyLongOb(2), PyLongOb(1), PyFloatOb(2)>>[i]

\* the entries of a and of b are the same, each as many times
SameEntries(a, b) ==
    /\ Len(a) = Len(b)
    /\ \A i \in DOMAIN a :
         Cardinality({j \in DOMAIN a : a[j] = a[i]})
           = Cardinality({j \in DOMAIN b : b[j] = a[i]})

\* C27: a sort of a list whose entries are held as its tag says that fails
\* on a comparison or on its key leaves the list with the entries it had,
\* each as many times as before, and with the references it had, and has
\* released every object it created.
C27_FailedSortKeepsEntries ==
    [][(last'.op = "sort" /\ last'.err # "none" /\ EntriesMatchTag)
       => /\ ~ub'
          /\ tag' = tag
          /\ SameEntries(entries, entries')
          /\ refs' = refs
          /\ last'.held = 0]_vars

\* a sort by key of an Int64 list has failed while 1 was moved up to make
\* room for the last entry: 1 is there twice, and the two ints boxed for the
\* failed comparison are still held
C27_KeyFailedMidInsert ==
    /\ last.op = "sort" /\ last.err = "TypeError" /\ last.ix = 1
    /\ tag = "as_int" /\ last.ptag = "as_int"
    /\ Len(entries) = 3
    /\ \A i \in DOMAIN entries : entry_value(entries[i], "int") = <<2, 1, 1>>[i]
    /\ last.held = 2

\* C28: sort without a key on an Int64 list succeeds and leaves an Int64
\* list of the same entries, each as many times as before, none less than
\* one before it; no reference is acquired or released.
C28_IntSortAscending ==
    [][(last'.op = "sort" /\ last'.ix = 0 /\ tag = "as_int" /\ EntriesMatchTag)
       => /\ last'.err = "none" /\ ~ub'
          /\ tag' = "as_int"
          /\ SameEntries(entries, entries')
          /\ \A i, j \in DOMAIN entries' :
               i < j => entry_value(entries'[i], "int") <= entry_value(entries'[j], "int")
          /\ last'.acqs = <<>> /\ last'.rels = <<>>
          /\ refs' = refs]_vars

\* an Int64 list of -1, 1 and 2 has been sorted without a key
C28_ThreeIntsSorted ==
    /\ last.op = "sort" /\ last.err = "none" /\ last.ix = 0
    /\ tag = "as_int" /\ last.ptag = "as_int"
    /\ Len(entries) = 3
    /\ \A i \in DOMAIN entries : entry_value(entries[i], "int") = <<0 - 1, 1, 2>>[i]

(***************************************************************************)
(* Sums.                                                                   *)
(***************************************************************************)
\* the sum of the std::int64_t entries from the i-th on
RECURSIVE Total(_, _)
Total(es, i) == IF i > Len(es) THEN 0 ELSE entry_value(es[i], "int") + Total(es, i + 1)

\* C29: sum of an Int64 list, without a start or with a start that is an
\* int (of any size, or a bool), returns an int whose value is the start
\* (0 without one) plus every entry, whatever the running totals are, and
\* leaves the list as it was.
C29_IntSumExact ==
    [][(/\ last'.op = "sum" /\ tag = "as_int" /\ EntriesMatchTag
        /\ (last'.ix = 0 \/ last'.val.k \in {"long", "bool"}))
       => /\ last'.err = "none" /\ ~ub'
          /\ last'.ret.k \in {"long", "bool"}
          /\ last'.ret.v = (IF last'.ix = 1 THEN last'.val.v ELSE 0) + Total(entries, 1)
          /\ tag' = tag /\ entries' = entries /\ refs' = refs]_vars

\* the sum of [INT64_MAX, 1, 1] has left the int64 range at the second entry
C29_OverflowAtSecondEntry ==
    /\ last.op = "sum" /\ last.err = "none" /\ last.ix = 0
    /\ tag = "as_int"
    /\ Len(entries) = 3
    /\ \A i \in DOMAIN entries : entry_value(entries[i], "int") = <<INT64_MAX, 1, 1>>[i]
    /\ last.ret = PyLongOb(INT64_MAX + 2)

\* the sum acc of the entries before the i-th, with the entries from the
\* i-th on added to it one by one, each on the right
RECURSIVE Fold(_, _, _)
Fold(acc, es, i) ==
    IF i > Len(es) \/ acc = NULL THEN acc
    ELSE Fold(PyNumber_Add(acc, EntryOb(es[i])), es, i + 1)

\* C30: sum of a Boxed list with a start returns the start with the entries
\* added to it one by one in the order of the list, each on the right of the
\* sum so far, and fails when one of these additions fails; the list is
\* left as it was.
C30_BoxedSumFoldsLeft ==
    [][(last'.op = "sum" /\ last'.ix = 1 /\ tag = "as_ob" /\ EntriesMatchTag)
       => LET want == Fold(last'.val, entries, 1)
          IN  /\ ~ub'
              /\ want = NULL => last'.err # "none"
              /\ want # NULL => (last'.err = "none" /\ last'.ret = want)
              /\ tag' = tag /\ entries' = entries /\ refs' = refs]_vars

\* the sum of the strs 'a' and 'b' with the start '' has returned 'ba'
C30_StrsJoinedBackwards ==
    /\ last.op = "sum" /\ last.err = "none" /\ last.ix = 1 /\ last.val = PyStrOb
    /\ last.sl[1] = 1
    /\ tag = "as_ob"
    /\ Len(entries) = 2
    /\ EntryOb(entries[1]) = StrA /\ EntryOb(entries[2]) = StrB
    /\ last.ret = [k |-> "str", v |-> 5]

(***************************************************************************)
(* Truth of the entries.                                                   *)
(***************************************************************************)
\* the entry e of a list of tag t is true: a number that is not zero, or a
\* pointer to an object that is true
Truthy(t, e) ==
    IF t \in PrimTags THEN entry_value(e, RepOf(t)) # 0
    ELSE PyObject_IsTrue(EntryOb(e)) = 1

C32_CopyIsIndependent ==
    [][/\ (last'.op = "copy" /\ last'.err = "none" /\ EntriesMatchTag)
          => /\ ~ub' /\ tag' = tag /\ entries' = entries /\ refs' = refs
             /\ peer'.made /\ peer'.tag = tag /\ PeerEntries' = entries
             /\ last'.rtag = tag /\ last'.oes = entries
             /\ peer'.refs = Owed
             /\ Len(last'.acqs) = Owed /\ last'.rels = <<>>
             /\ \A i \in DOMAIN entries :
                  entries[i].rep = "ob"
                    => Count(last'.acqs, EntryOb(entries[i]))
                         = Cardinality({j \in DOMAIN entries : entries[j] = entries[i]})
       /\ (last'.op \in {"append", "set", "delete", "clear"} /\ peer.made)
          => /\ PeerEntries' = PeerEntries
             /\ peer'.tag = peer.tag
             /\ peer'.refs = peer.refs]_vars

\* a Boxed list of two entries has been copied and then cleared: the copy
\* still has the two entries and its two references
C32_CopyOutlivesClear ==
    /\ last.op = "clear" /\ last.ptag = "as_ob" /\ last.plen = 2
    /\ entries = <<>>
    /\ peer.made /\ peer.tag = "as_ob" /\ Len(PeerEntries) = 2 /\ peer.refs = 2

(***************************************************************************)
(* Cursors.                                                                *)
(***************************************************************************)
\* the object that get(ix) returns for the entry at the 0-based index ix
Yielded(ix) ==
    IF tag = "as_ob" THEN EntryOb(entries[ix + 1])
    ELSE box_value(RepOf(tag), entry_value(entries[ix + 1], RepOf(tag)))

\* C33: while a cursor has not reported the end and its position is less
\* than the length the list has at the call, next yields the entry at that
\* position (or fails as get does) and moves the position on by one; at the
\* first call that finds the position at or beyond the length, and at every
\* call after it, next reports the end, whatever the length has become.
C33_CursorFollowsLiveList ==
    [][(last'.op = "next" /\ EntriesMatchTag)
       => /\ entries' = entries /\ tag' = tag /\ ~ub'
          /\ (iter.list /\ iter.ix < Len(entries))
             => /\ last'.err \in {"none", "MemoryError"}
                /\ last'.err = "none" => last'.ret = Yielded(iter.ix)
                /\ iter'.ix = iter.ix + 1
                /\ iter'.list
          /\ ~(iter.list /\ iter.ix < Len(entries))
             => /\ last'.err = "StopIteration"
                /\ ~iter'.list
                /\ iter'.ix = iter.ix]_vars

\* a cursor that reported the end of a list of one entry reports it again
\* after a second entry has been appended
C33_EndIsFinal ==
    /\ last.op = "next" /\ last.err = "StopIteration"
    /\ iter.made /\ ~iter.list /\ iter.ix = 1
    /\ Len(entries) = 2

\* C34: get on a Boxed list, by index or through a cursor, acquires one
\* reference to the object it returns, for the caller; the references the
\* list holds stay as they were.
C34_GetAcquiresForCaller ==
    [][(/\ (last'.op = "get" \/ last'.op = "next")
        /\ last'.err = "none" /\ tag = "as_ob" /\ EntriesMatchTag)
       => /\ last'.acqs = <<last'.ret>>
          /\ last'.rels = <<>>
          /\ refs' = refs /\ entries' = entries /\ ~ub']_vars

\* a cursor has yielded the only entry of a Boxed list and no reference to
\* it has been acquired: the caller and the list have one reference between
\* them
C34_YieldedWithoutReference ==
    /\ last.op = "next" /\ last.err = "none" /\ last.ret = PyStrOb
    /\ last.acqs = <<>>
    /\ tag = "as_ob" /\ Len(entries) = 1 /\ EntryOb(entries[1]) = PyStrOb
    /\ refs = 1

(***************************************************************************)
(* The slots reserved for incoming values.                                 *)
(***************************************************************************)
\* C35: when an append, an insert or an extend from a sequence boxes an
\* Int64 or Float64 list and succeeds, the list holds afterwards as many
\* references as it has entries.
C35_BoxingStoreKeepsCount ==
    [][(/\ last'.op \in {"append", "insert", "extend_fast"}
        /\ last'.err = "none"
        /\ tag \in PrimTags /\ EntriesMatchTag
        /\ tag' = "as_ob")
       => /\ ~ub'
          /\ refs' = Len(entries')
          /\ Len(last'.acqs) - Len(last'.rels) = Len(entries')]_vars

\* a str has been appended to the Int64 list [1]: two entries, and three
\* references acquired, none released
C35_ReservedSlotBoxed ==
    /\ last.op = "append" /\ last.err = "none" /\ last.val = PyStrOb
    /\ last.ptag = "as_int" /\ last.plen = 1
    /\ tag = "as_ob" /\ Len(entries) = 2
    /\ refs = 3
    /\ Len(last.acqs) = 3 /\ last.rels = <<>>

\* the objects that get returns for the entries es of a list of tag t
Logical(t, es) ==
    [i \in DOMAIN es |->
       IF es[i].rep = "ob" THEN EntryOb(es[i])
       ELSE box_value(es[i].rep, entry_value(es[i], es[i].rep))]

\* C37: an append or an insert that fails leaves the list with the length
\* it had and with entries that stand for the objects they stood for.
C37_FailedStoreLeavesList ==
    [][(/\ last'.op \in {"append", "insert"}
        /\ last'.err = "MemoryError"
        /\ EntriesMatchTag)
       => /\ Len(entries') = Len(entries)
          /\ Logical(tag', entries') = Logical(tag, entries)]_vars

\* the append of a str to the Int64 list [1] has failed in boxing, and the
\* list has two entries
C37_SlotLeftBehind ==
    /\ last.op = "append" /\ last.err = "MemoryError" /\ last.val = PyStrOb
    /\ last.ptag = "as_int" /\ last.plen = 1
    /\ Len(entries) = 2

\* C36: the deletion of a slice of step 1 from a Boxed list whose entries
\* are held as objects reads no entry past the end of the list, acquires no
\* reference, and releases the references of the removed entries, one for
\* each, and none of an entry that stays.
C36_UnitDeleteReleasesRemoved ==
    [][(/\ last'.op = "del_slice"
        /\ EntriesMatchTag
        /\ tag = "as_ob"
        /\ last'.sl[3] = 1)
       => LET old == Items(Container)
              a == slice_of(Container, last'.sl)
              picked == {a.start + k + 1 : k \in 0..(a.len - 1)}
          IN  /\ last'.err = "none" /\ ~ub'
              /\ Items(Container') = Surviving(old, picked)
              /\ last'.acqs = <<>>
              /\ Len(last'.rels) = Cardinality(picked)
              /\ \A ob \in {old[p] : p \in DOMAIN old} :
                   Count(last'.rels, ob)
                     = Cardinality({q \in picked : old[q] = ob})]_vars

\* C36 witness: the first entry of a Boxed list of two entries was deleted,
\* and the one reference released is that of the str that stays
C36_SurvivorReleased ==
    /\ last.op = "del_slice" /\ last.sl = <<0, 1, 1>>
    /\ last.ptag = "as_ob" /\ last.plen = 2
    /\ entries = <<ObEntry(PyStrOb)>>
    /\ last.rels = <<PyStrOb>>
    /\ refs = 1

\* C38: the assignment of an empty sequence to a slice of a list of one or
\* more ints or floats, when it succeeds, leaves the tag of the list as it
\* was, leaves every entry primitive, and acquires no reference.
C38_EmptyAssignKeepsPrimitive ==
    [][(/\ last'.op = "set_slice_seq" /\ last'.oes = <<>>
        /\ last'.err = "none"
        /\ tag \in PrimTags /\ Len(entries) > 0
        /\ EntriesMatchTag)
       => /\ tag' = tag
          /\ \A i \in DOMAIN entries' : entries'[i].rep # "ob"
          /\ last'.acqs = <<>>]_vars

\* C38 witness: c[0:1] = [] on an Int64 list of two entries has left the
\* list Boxed
C38_EmptyAssignBoxed ==
    /\ last.op = "set_slice_seq" /\ last.oes = <<>> /\ last.err = "none"
    /\ last.sl = <<0, 1, 1>>
    /\ last.ptag = "as_int" /\ last.plen = 2
    /\ tag = "as_ob"
    /\ Len(last.acqs) > 0

\* C39: an assignment to a slice of a list whose entries are held as its tag
\* says returns with the reference count of the list assigned from as it
\* was, and with every list it made for the assignment freed, whether it
\* succeeds or fails.
C39_AssignReturnsSourceRefs ==
    [][(/\ last'.op \in {"set_slice", "set_slice_seq", "set_self"}
        /\ EntriesMatchTag /\ ~ub)
       => /\ last'.oref = 0
          /\ last'.held = 0]_vars

\* C39 witness: a list of one entry was assigned to the empty slice of an
\* empty list, and has one reference fewer than before
C39_SourceReleasedUntaken ==
    /\ last.op = "set_slice" /\ last.err = "none"
    /\ last.plen = 0 /\ last.olen = 1
    /\ Len(entries) = 1
    /\ last.oref = 0 - 1

\* C40: on a list whose entries are held as its tag says, a count that
\* succeeds returns the number of items of the list that compare equal to
\* the value, and leaves the list and its references as they were.
C40_CountIsNumberEqual ==
    [][(/\ last'.op = "count" /\ last'.err = "none"
        /\ EntriesMatchTag)
       => LET old == Items(Container)
          IN  /\ ~ub'
              /\ last'.ret = PyLongOb(Cardinality({i \in DOMAIN old :
                                                     RichEq(old[i], last'.val)}))
              /\ tag' = tag /\ entries' = entries /\ refs' = refs
              /\ last'.acqs = <<>> /\ last'.rels = <<>>]_vars

\* C40 witness: the count of 1.5 in the Float64 list [1.5] was 0
C40_FractionNotCounted ==
    /\ last.op = "count" /\ last.err = "none" /\ last.val = PyFloatOb(3)
    /\ tag = "as_double" /\ entries = <<DblEntry(3)>>
    /\ last.ret = PyLongOb(0)

====
